---------------------------- MODULE Spec2Model ----------------------------
(***************************************************************************)
(* BayesML: the exponential model (Gamma prior, closed-form update) and    *)
(* the multinomial mixture model, as state machines.                       *)
(*                                                                         *)
(* Every object is one variable holding a record of the object's fields,   *)
(* under the field names of the source.  Every method is an operator from  *)
(* the object (and the arguments) to an outcome                            *)
(*     [self, ret, exc, warn]                                              *)
(* the object as the call leaves it, the value returned, the exception     *)
(* raised ("none" when the call returns) and the warnings issued.  An      *)
(* assignment made before a raise stays in self, as in the source.         *)
(*                                                                         *)
(* Real numbers: hyperparameters and observations are integer-valued       *)
(* floats; a quotient is a reduced fraction <<n, d>>.  An optional         *)
(* argument is <<>> (None) or <<v>>.                                       *)
(***************************************************************************)
EXTENDS Integers, Sequences, FiniteSets, TLC

VARIABLES
    learn,      \* exponential.LearnModel: h0_alpha, h0_beta, hn_alpha, hn_beta, p_kappa, p_lambda
    gen,        \* exponential.GenModel: lambda_, h_alpha, h_beta
    mgen,       \* multinomialmixture.GenModel: num_classes, degree, pi_vec, theta_vecs,
                \* h_alpha_vec, h_beta_vec
    mlearn,     \* multinomialmixture.LearnModel: num_classes, degree, h0_alpha_vec,
                \* h0_beta_vec, hn_alpha_vec, hn_beta_vec, r_vecs, p_pi_vec, p_theta_vecs,
                \* LN_C_H0_ALPHA, LN_C_H0_BETA
    twins,      \* GenModel instances held side by side, by instance number: for each its
                \* object (model), its generator (rng), the arguments it was constructed
                \* with (kind, args, seed) and the calls made on it and what they returned
                \* (calls, outs); <<>> where one object alone is followed
    bitgen,     \* the bit generator behind numpy.random.default_rng: which of the
                \* pseudo-random streams a seed stands for; <<>> where nothing is drawn
    last        \* the call that has just ended and whose outcome the caller holds:
                \* [on, op, args, pre, ret, exc, warn], on the object called and pre that
                \* object on entry; Idle between calls

vars == <<learn, gen, mgen, mlearn, twins, bitgen, last>>

\* an object that has not been constructed
Absent == [constructed |-> FALSE]

\* one object alone is followed: no instances side by side, nothing drawn
NoTwins == twins = <<>> /\ bitgen = <<>>

---------------------------------------------------------------------------
(* Bounds of the model *)

\* the posterior shape hn_alpha explored
MaxAlpha == 4
\* the posterior rate hn_beta explored
MaxBeta == 7
\* the longest data array passed to update_posterior
MaxBatch == 3

\* the elements of data arrays and the scalar observations; 0 is the invalid one
Obs == {0, 1, 2, 3}
\* the values passed to the scalar hyperparameter setters; 0 is the invalid one
ParamVals == {0, 1, 2}
\* the loss names passed; "bogus" is the unsupported one
Losses == {"squared", "0-1", "abs", "KL", "bogus"}

---------------------------------------------------------------------------
(* Values *)

None == <<>>
Some(v) == <<v>>
Opt(S) == {None} \cup {Some(v) : v \in S}

RECURSIVE GCD(_, _)
GCD(a, b) == IF b = 0 THEN a ELSE GCD(b, a % b)

\* the float a / b, a >= 0 and b > 0, as a reduced fraction
Frac(a, b) == LET g == GCD(a, b) IN <<a \div g, b \div g>>

RECURSIVE SeqSum(_)
SeqSum(s) == IF s = <<>> THEN 0 ELSE Head(s) + SeqSum(Tail(s))

SeqsUpTo(S, n) == UNION {[1..k -> S] : k \in 0..n}

\* a python float, a numpy float64 scalar, a numpy array
PyFloat(v) == [kind |-> "float", v |-> v]
NpFloat(v) == [kind |-> "float64", v |-> v]
NdArray(s) == [kind |-> "ndarray", elems |-> s]

Scalars == {PyFloat(v) : v \in Obs} \cup {NpFloat(v) : v \in Obs}
Arrays == {NdArray(s) : s \in SeqsUpTo(Obs, MaxBatch)}
ShortArrays == {NdArray(s) : s \in SeqsUpTo(Obs, 1)}
Data == Scalars \cup Arrays

\* what a call returns
RetNone == [kind |-> "None"]
RetSelf == [kind |-> "self"]
RetFloat(q) == [kind |-> "float", v |-> q]
RetDict(r) == [kind |-> "dict", lambda_ |-> r]
RetGamma(a, scale) == [kind |-> "rv_frozen", dist |-> "gamma", a |-> a, scale |-> scale]
RetLomax(c, scale) == [kind |-> "rv_frozen", dist |-> "lomax", c |-> c, scale |-> scale]
\* a median, which has no closed rational form: kept as the expression computed
RetMedian(dist, shape, scale) == [kind |-> "float", median_of |-> dist, shape |-> shape, scale |-> scale]
NoReturn == [kind |-> "raised"]

Ok(self, ret) == [self |-> self, ret |-> ret, exc |-> "none", warn |-> {}]
Warn(self, ret, w) == [self |-> self, ret |-> ret, exc |-> "none", warn |-> {w}]
Raise(self, e) == [self |-> self, ret |-> NoReturn, exc |-> e, warn |-> {}]

---------------------------------------------------------------------------
(* _check: the validation helpers *)

\* _check.pos_float: a scalar float > 0
pos_float(x) == x.kind \in {"float", "float64"} /\ x.v > 0

\* _check.pos_floats: a scalar > 0, or an array whose elements are all > 0
pos_floats(x) ==
    IF x.kind = "ndarray" THEN \A i \in 1..Len(x.elems) : x.elems[i] > 0
    ELSE x.v > 0

---------------------------------------------------------------------------
(* exponential.LearnModel *)

\* x.size: an array's element count, 1 for a numpy scalar; a python float has none
HasSize(x) == x.kind \in {"ndarray", "float64"}
Size(x) == IF x.kind = "ndarray" THEN Len(x.elems) ELSE 1
\* np.sum(x)
np_sum(x) == IF x.kind = "ndarray" THEN SeqSum(x.elems) ELSE x.v

calc_pred_dist(self) ==
    [self EXCEPT !.p_kappa = self.hn_alpha, !.p_lambda = self.hn_beta]

\* set_hn_params without the closing calc_pred_dist
set_hn_params_NoRefresh(self, hn_alpha, hn_beta) ==
    IF hn_alpha # None /\ ~pos_float(PyFloat(hn_alpha[1]))
    THEN Raise(self, "ParameterFormatError")
    ELSE LET s1 == IF hn_alpha # None THEN [self EXCEPT !.hn_alpha = hn_alpha[1]] ELSE self
         IN  IF hn_beta # None /\ ~pos_float(PyFloat(hn_beta[1]))
             THEN Raise(s1, "ParameterFormatError")
             ELSE LET s2 == IF hn_beta # None THEN [s1 EXCEPT !.hn_beta = hn_beta[1]] ELSE s1
                  IN  Ok(s2, RetSelf)

set_hn_params(self, hn_alpha, hn_beta) ==
    IF hn_alpha # None /\ ~pos_float(PyFloat(hn_alpha[1]))
    THEN Raise(self, "ParameterFormatError")
    ELSE LET s1 == IF hn_alpha # None THEN [self EXCEPT !.hn_alpha = hn_alpha[1]] ELSE self
         IN  IF hn_beta # None /\ ~pos_float(PyFloat(hn_beta[1]))
             THEN Raise(s1, "ParameterFormatError")
             ELSE LET s2 == IF hn_beta # None THEN [s1 EXCEPT !.hn_beta = hn_beta[1]] ELSE s1
                  IN  Ok(calc_pred_dist(s2), RetSelf)

\* base.Posterior.reset_hn_params: the posterior goes back to h0, the predictive
\* parameters are recomputed
reset_hn_params(self) ==
    Ok(calc_pred_dist([self EXCEPT !.hn_alpha = self.h0_alpha, !.hn_beta = self.h0_beta]),
       RetNone)

\* set_h0_params without the closing reset_hn_params
set_h0_params_NoReset(self, h0_alpha, h0_beta) ==
    IF h0_alpha # None /\ ~pos_float(PyFloat(h0_alpha[1]))
    THEN Raise(self, "ParameterFormatError")
    ELSE LET s1 == IF h0_alpha # None THEN [self EXCEPT !.h0_alpha = h0_alpha[1]] ELSE self
         IN  IF h0_beta # None /\ ~pos_float(PyFloat(h0_beta[1]))
             THEN Raise(s1, "ParameterFormatError")
             ELSE LET s2 == IF h0_beta # None THEN [s1 EXCEPT !.h0_beta = h0_beta[1]] ELSE s1
                  IN  Ok(s2, RetSelf)

set_h0_params(self, h0_alpha, h0_beta) ==
    IF h0_alpha # None /\ ~pos_float(PyFloat(h0_alpha[1]))
    THEN Raise(self, "ParameterFormatError")
    ELSE LET s1 == IF h0_alpha # None THEN [self EXCEPT !.h0_alpha = h0_alpha[1]] ELSE self
         IN  IF h0_beta # None /\ ~pos_float(PyFloat(h0_beta[1]))
             THEN Raise(s1, "ParameterFormatError")
             ELSE LET s2 == IF h0_beta # None THEN [s1 EXCEPT !.h0_beta = h0_beta[1]] ELSE s1
                  IN  Ok(reset_hn_params(s2).self, RetSelf)

\* LearnModel.__init__(h0_alpha, h0_beta): every field 1.0, then set_h0_params
LearnModelInit(h0_alpha, h0_beta) ==
    set_h0_params([h0_alpha |-> 1, h0_beta |-> 1, hn_alpha |-> 1, hn_beta |-> 1,
                   p_kappa |-> 1, p_lambda |-> 1],
                  Some(h0_alpha), Some(h0_beta))

\* update_posterior recomputing the posterior from the prior and this batch alone
update_posterior_FromPrior(self, x) ==
    IF ~pos_floats(x)
    THEN Raise(self, "DataFormatError")
    ELSE LET s1 == [self EXCEPT !.hn_alpha = self.h0_alpha + (IF HasSize(x) THEN Size(x) ELSE 1)]
             s2 == [s1 EXCEPT !.hn_beta = self.h0_beta + np_sum(x)]
         IN  Ok(s2, RetSelf)

\* update_posterior adding the count to hn_beta where the sum belongs
update_posterior_CountForSum(self, x) ==
    IF ~pos_floats(x)
    THEN Raise(self, "DataFormatError")
    ELSE LET s1 == [self EXCEPT !.hn_alpha = @ + (IF HasSize(x) THEN Size(x) ELSE 1)]
             s2 == [s1 EXCEPT !.hn_beta = @ + (IF HasSize(x) THEN Size(x) ELSE 1)]
         IN  Ok(s2, RetSelf)

update_posterior(self, x) ==
    IF ~pos_floats(x)
    THEN Raise(self, "DataFormatError")
    ELSE LET s1 == [self EXCEPT !.hn_alpha = @ + (IF HasSize(x) THEN Size(x) ELSE 1)]
             s2 == [s1 EXCEPT !.hn_beta = @ + np_sum(x)]
         IN  Ok(s2, RetSelf)

\* _update_posterior: update_posterior without _check_sample and without the
\* try/except around x.size; a python float has neither size nor sum()
_update_posterior(self, x) ==
    IF ~HasSize(x)
    THEN Raise(self, "AttributeError")
    ELSE LET s1 == [self EXCEPT !.hn_alpha = @ + Size(x)]
             s2 == [s1 EXCEPT !.hn_beta = @ + np_sum(x)]
         IN  Ok(s2, RetSelf)

\* estimate_params whose "0-1" branch forgets the - 1.0 of the mode
estimate_params_ModeAsMean(self, loss, dict_out) ==
    CASE loss = "squared" ->
            LET v == RetFloat(Frac(self.hn_alpha, self.hn_beta))
            IN  Ok(self, IF dict_out THEN RetDict(v) ELSE v)
      [] loss = "0-1" ->
            LET v == IF self.hn_alpha > 1
                     THEN RetFloat(Frac(self.hn_alpha, self.hn_beta))
                     ELSE RetFloat(Frac(0, 1))
            IN  Ok(self, IF dict_out THEN RetDict(v) ELSE v)
      [] loss = "abs" ->
            LET v == RetMedian("gamma", self.hn_alpha, Frac(1, self.hn_beta))
            IN  Ok(self, IF dict_out THEN RetDict(v) ELSE v)
      [] loss = "KL" ->
            Ok(self, RetGamma(self.hn_alpha, Frac(1, self.hn_beta)))
      [] OTHER -> Raise(self, "CriteriaError")

estimate_params(self, loss, dict_out) ==
    CASE loss = "squared" ->
            LET v == RetFloat(Frac(self.hn_alpha, self.hn_beta))
            IN  Ok(self, IF dict_out THEN RetDict(v) ELSE v)
      [] loss = "0-1" ->
            LET v == IF self.hn_alpha > 1
                     THEN RetFloat(Frac(self.hn_alpha - 1, self.hn_beta))
                     ELSE RetFloat(Frac(0, 1))
            IN  Ok(self, IF dict_out THEN RetDict(v) ELSE v)
      [] loss = "abs" ->
            LET v == RetMedian("gamma", self.hn_alpha, Frac(1, self.hn_beta))
            IN  Ok(self, IF dict_out THEN RetDict(v) ELSE v)
      [] loss = "KL" ->
            Ok(self, RetGamma(self.hn_alpha, Frac(1, self.hn_beta)))
      [] OTHER -> Raise(self, "CriteriaError")

\* make_prediction taking an unknown loss name for the default "squared"
make_prediction_UnknownAsSquared(self, loss) ==
    CASE loss = "0-1" -> Ok(self, RetFloat(Frac(0, 1)))
      [] loss = "abs" -> Ok(self, RetMedian("lomax", self.p_kappa, self.p_lambda))
      [] loss = "KL" -> Ok(self, RetLomax(self.p_kappa, self.p_lambda))
      [] OTHER ->
            IF self.p_kappa > 1
            THEN Ok(self, RetFloat(Frac(self.p_lambda, self.p_kappa - 1)))
            ELSE Warn(self, RetNone, "ResultWarning")

\* make_prediction testing p_kappa >= 1: the mean at p_kappa = 1 divides by zero
make_prediction_MeanAtKappaOne(self, loss) ==
    CASE loss = "squared" ->
            IF self.p_kappa > 1
            THEN Ok(self, RetFloat(Frac(self.p_lambda, self.p_kappa - 1)))
            ELSE IF self.p_kappa = 1
                 THEN Raise(self, "ZeroDivisionError")
                 ELSE Warn(self, RetNone, "ResultWarning")
      [] loss = "0-1" -> Ok(self, RetFloat(Frac(0, 1)))
      [] loss = "abs" -> Ok(self, RetMedian("lomax", self.p_kappa, self.p_lambda))
      [] loss = "KL" -> Ok(self, RetLomax(self.p_kappa, self.p_lambda))
      [] OTHER -> Raise(self, "CriteriaError")

make_prediction(self, loss) ==
    CASE loss = "squared" ->
            IF self.p_kappa > 1
            THEN Ok(self, RetFloat(Frac(self.p_lambda, self.p_kappa - 1)))
            ELSE Warn(self, RetNone, "ResultWarning")
      [] loss = "0-1" -> Ok(self, RetFloat(Frac(0, 1)))
      [] loss = "abs" -> Ok(self, RetMedian("lomax", self.p_kappa, self.p_lambda))
      [] loss = "KL" -> Ok(self, RetLomax(self.p_kappa, self.p_lambda))
      [] OTHER -> Raise(self, "CriteriaError")

\* pred_and_update folding x in before it predicts
pred_and_update_UpdateFirst(self, x, loss) ==
    IF ~pos_float(x)
    THEN Raise(self, "DataFormatError")
    ELSE LET u == update_posterior(self, x)
             s1 == calc_pred_dist(u.self)
             m == make_prediction(s1, loss)
         IN  IF u.exc # "none" THEN u ELSE m

pred_and_update(self, x, loss) ==
    IF ~pos_float(x)
    THEN Raise(self, "DataFormatError")
    ELSE LET s1 == calc_pred_dist(self)
             m == make_prediction(s1, loss)
         IN  IF m.exc # "none"
             THEN m
             ELSE LET u == update_posterior(m.self, x)
                  IN  [self |-> u.self,
                       ret |-> IF u.exc = "none" THEN m.ret ELSE NoReturn,
                       exc |-> u.exc,
                       warn |-> m.warn \cup u.warn]

---------------------------------------------------------------------------
(* The exponential LearnModel as a state machine *)

InRange(self) == self.hn_alpha <= MaxAlpha /\ self.hn_beta <= MaxBeta

Idle == [op |-> "idle"]

\* the call op(args) on the object `on`, which was pre on entry, with outcome r
CallOn(on, op, args, pre, r) ==
    /\ last = Idle
    /\ last' = [on |-> on, op |-> op, args |-> args, pre |-> pre,
                ret |-> r.ret, exc |-> r.exc, warn |-> r.warn]

\* the call op(args) on learn with outcome r
Call(op, args, r) ==
    /\ learn # Absent
    /\ InRange(r.self)
    /\ CallOn("learn", op, args, learn, r)
    /\ learn' = r.self
    /\ UNCHANGED <<twins, bitgen, gen, mgen, mlearn>>

SetH0Params ==
    /\ last = Idle
    /\ learn # Absent
    /\ \E a \in Opt(ParamVals), b \in Opt(ParamVals) :
            Call("set_h0_params", [h0_alpha |-> a, h0_beta |-> b], set_h0_params(learn, a, b))

SetHnParams ==
    /\ last = Idle
    /\ learn # Absent
    /\ \E a \in Opt(ParamVals), b \in Opt(ParamVals) :
            Call("set_hn_params", [hn_alpha |-> a, hn_beta |-> b], set_hn_params(learn, a, b))

ResetHnParams ==
    /\ last = Idle
    /\ Call("reset_hn_params", [none |-> TRUE], reset_hn_params(learn))

UpdatePosterior ==
    /\ last = Idle
    /\ \E x \in Data :
            Call("update_posterior", [x |-> x], update_posterior(learn, x))

EstimateParams ==
    /\ last = Idle
    /\ \E loss \in Losses, d \in BOOLEAN :
            Call("estimate_params", [loss |-> loss, dict_out |-> d], estimate_params(learn, loss, d))

MakePrediction ==
    /\ last = Idle
    /\ \E loss \in Losses :
            Call("make_prediction", [loss |-> loss], make_prediction(learn, loss))

PredAndUpdate ==
    /\ last = Idle
    /\ \E x \in Scalars \cup ShortArrays, loss \in Losses :
            Call("pred_and_update", [x |-> x, loss |-> loss], pred_and_update(learn, x, loss))

\* the caller takes the outcome; the object is ready for the next call
Return ==
    /\ last # Idle
    /\ last' = Idle
    /\ UNCHANGED <<twins, bitgen, learn, gen, mgen, mlearn>>

Init ==
    /\ NoTwins
    /\ \E a \in ParamVals \ {0}, b \in ParamVals \ {0} :
        /\ learn = LearnModelInit(a, b).self
        /\ gen = Absent
        /\ mgen = Absent
        /\ mlearn = Absent
        /\ last = [on |-> "learn", op |-> "__init__",
                   args |-> [h0_alpha |-> Some(a), h0_beta |-> Some(b)],
                   pre |-> Absent, ret |-> RetNone, exc |-> "none", warn |-> {}]

Next ==
    \/ UpdatePosterior
    \/ PredAndUpdate
    \/ EstimateParams
    \/ MakePrediction
    \/ ResetHnParams
    \/ SetHnParams
    \/ SetH0Params
    \/ Return

Spec == Init /\ [][Next]_vars

---------------------------------------------------------------------------
(* Vectors and matrices of the mixture model.  A vector is a non-empty      *)
(* sequence of fractions, a matrix a non-empty sequence of rows of one      *)
(* length; None stands for an argument that is not given.                   *)

\* the largest class count and degree passed in
MaxDim == 3

Dims == 1..MaxDim

FracAdd(p, q) == Frac(p[1] * q[2] + q[1] * p[2], p[2] * q[2])

RECURSIVE FracSum(_)
FracSum(v) == IF v = <<>> THEN <<0, 1>> ELSE FracAdd(Head(v), FracSum(Tail(v)))

\* np.ones(n) * c
Const(n, c) == [i \in 1..n |-> c]
\* np.ones(n) / n
Uniform(n) == Const(n, Frac(1, n))
\* np.ones(n) / 2.0
Halves(n) == Const(n, Frac(1, 2))
\* np.ones((k, d)) / d
UniformRows(k, d) == [i \in 1..k |-> Uniform(d)]
\* a point of the simplex other than the uniform one (for n > 1)
Skewed(n) == [i \in 1..n |-> IF i = 1 THEN Frac(n + 1, 2 * n) ELSE Frac(1, 2 * n)]

Rows(m) == Len(m)
Cols(m) == Len(m[1])

\* np.empty: storage whose content is not defined until it is assigned
Undefined == <<-1, 1>>
np_empty(n) == Const(n, Undefined)
np_empty2(k, d) == [i \in 1..k |-> np_empty(d)]

\* an array held with its number of axes, where a field holds a vector at one time
\* and a matrix at another
Array1(v) == [ndim |-> 1, a |-> v]
Array2(m) == [ndim |-> 2, a |-> m]
\* the array's row for class k: a vector serves every class
RowOf(arr, k) == IF arr.ndim = 2 THEN arr.a[k] ELSE arr.a

\* the vectors and matrices passed in; the last of each is the invalid one
PiVecs == {Skewed(n) : n \in Dims} \cup {<<Frac(1, 2), Frac(1, 4)>>}
ThetaVecs == {[i \in 1..k |-> Skewed(d)] : k \in Dims, d \in Dims}
                 \cup {<< <<Frac(1, 2), Frac(1, 4)>> >>}
PosVecs == {Const(n, Frac(1, 1)) : n \in Dims} \cup {<<Frac(1, 1), Frac(0, 1)>>}
\* the counts passed in; 0 is the invalid one
Counts == {0} \cup Dims

\* _check.pos_int
pos_int(n) == n >= 1
\* _check.pos_float_vec: an array of positive floats
pos_float_vec(v) == v # None /\ \A i \in 1..Len(v) : v[i][1] > 0
\* _check.float_vec_sum_1: an array of floats in [0, 1] that sum to 1
float_vec_sum_1(v) ==
    /\ v # None
    /\ \A i \in 1..Len(v) : v[i][1] >= 0 /\ v[i][1] <= v[i][2]
    /\ FracSum(v) = <<1, 1>>
\* _check.float_vecs_sum_1: a matrix of which every row is such an array
float_vecs_sum_1(m) == m # None /\ \A k \in 1..Len(m) : float_vec_sum_1(m[k])

---------------------------------------------------------------------------
(* multinomialmixture.GenModel *)

\* __init__, lines 53-81: num_classes, pi_vec and h_alpha_vec
MixGenClassPart(a) ==
    IF a.num_classes # None
    THEN IF \/ ~pos_int(a.num_classes[1])
            \/ a.pi_vec # None /\ ~float_vec_sum_1(a.pi_vec)
            \/ a.h_alpha_vec # None /\ ~pos_float_vec(a.h_alpha_vec)
         THEN [exc |-> "ParameterFormatError"]
         ELSE [exc |-> "none",
               num_classes |-> a.num_classes[1],
               pi_vec |-> IF a.pi_vec = None THEN Uniform(a.num_classes[1]) ELSE a.pi_vec,
               h_alpha_vec |-> IF a.h_alpha_vec = None THEN Halves(a.num_classes[1])
                               ELSE a.h_alpha_vec]
    ELSE IF a.pi_vec # None
    THEN IF \/ ~float_vec_sum_1(a.pi_vec)
            \/ a.h_alpha_vec # None /\ ~pos_float_vec(a.h_alpha_vec)
         THEN [exc |-> "ParameterFormatError"]
         ELSE [exc |-> "none",
               num_classes |-> Len(a.pi_vec),
               pi_vec |-> a.pi_vec,
               h_alpha_vec |-> IF a.h_alpha_vec = None THEN Halves(Len(a.pi_vec))
                               ELSE a.h_alpha_vec]
    ELSE IF a.h_alpha_vec # None
    THEN IF ~pos_float_vec(a.h_alpha_vec)
         THEN [exc |-> "ParameterFormatError"]
         ELSE [exc |-> "none",
               num_classes |-> Len(a.h_alpha_vec),
               pi_vec |-> Uniform(Len(a.h_alpha_vec)),
               h_alpha_vec |-> a.h_alpha_vec]
    ELSE [exc |-> "none", num_classes |-> 2, pi_vec |-> Uniform(2), h_alpha_vec |-> Halves(2)]

\* __init__, lines 87-118: degree, theta_vecs and h_beta_vec, for num_classes = nc
MixGenDegreePart(a, nc) ==
    IF a.degree # None
    THEN IF \/ ~pos_int(a.degree[1])
            \/ a.theta_vecs # None /\ ~float_vecs_sum_1(a.theta_vecs)
            \/ a.h_beta_vec # None /\ ~pos_float_vec(a.h_beta_vec)
         THEN [exc |-> "ParameterFormatError"]
         ELSE [exc |-> "none",
               degree |-> a.degree[1],
               theta_vecs |-> IF a.theta_vecs = None THEN UniformRows(nc, a.degree[1])
                              ELSE a.theta_vecs,
               h_beta_vec |-> IF a.h_beta_vec = None THEN Halves(a.degree[1])
                              ELSE a.h_beta_vec]
    ELSE IF a.theta_vecs # None
    THEN IF \/ ~float_vecs_sum_1(a.theta_vecs)
            \/ a.h_beta_vec # None /\ ~pos_float_vec(a.h_beta_vec)
         THEN [exc |-> "ParameterFormatError"]
         ELSE [exc |-> "none",
               degree |-> Cols(a.theta_vecs),
               theta_vecs |-> a.theta_vecs,
               h_beta_vec |-> IF a.h_beta_vec = None THEN Halves(Cols(a.theta_vecs))
                              ELSE a.h_beta_vec]
    ELSE IF a.h_beta_vec # None
    THEN IF ~pos_float_vec(a.h_beta_vec)
         THEN [exc |-> "ParameterFormatError"]
         ELSE [exc |-> "none",
               degree |-> Len(a.h_beta_vec),
               theta_vecs |-> UniformRows(nc, Len(a.h_beta_vec)),
               h_beta_vec |-> a.h_beta_vec]
    ELSE [exc |-> "none", degree |-> 3, theta_vecs |-> UniformRows(nc, 3),
          h_beta_vec |-> Halves(3)]

\* the check of lines 83-85 without its h_alpha_vec half
MixGenClassCheck_PiOnly(c) ==
    c.num_classes = Len(c.pi_vec)

\* lines 83-85: num_classes against pi_vec and h_alpha_vec
MixGenClassCheck(c) ==
    c.num_classes = Len(c.pi_vec) /\ c.num_classes = Len(c.h_alpha_vec)

\* lines 120-127: num_classes and degree against theta_vecs and h_beta_vec
MixGenDegreeCheck(c, d) ==
    /\ c.num_classes = Rows(d.theta_vecs)
    /\ d.degree = Cols(d.theta_vecs)
    /\ d.degree = Len(d.h_beta_vec)

\* GenModel.__init__: a constructor that raises leaves no object
MixGenModelInit(a) ==
    LET c == MixGenClassPart(a)
    IN  IF c.exc # "none" THEN Raise(Absent, c.exc)
        ELSE IF ~MixGenClassCheck(c) THEN Raise(Absent, "ParameterFormatError")
        ELSE LET d == MixGenDegreePart(a, c.num_classes)
             IN  IF d.exc # "none" THEN Raise(Absent, d.exc)
                 ELSE IF ~MixGenDegreeCheck(c, d) THEN Raise(Absent, "ParameterFormatError")
                 ELSE Ok([num_classes |-> c.num_classes, degree |-> d.degree,
                          pi_vec |-> c.pi_vec, theta_vecs |-> d.theta_vecs,
                          h_alpha_vec |-> c.h_alpha_vec, h_beta_vec |-> d.h_beta_vec],
                         RetNone)

\* lines 152-163: theta_vecs reinitialized when either of its dimensions is off
MixGenFixTheta(self) ==
    IF self.num_classes # Rows(self.theta_vecs) \/ self.degree # Cols(self.theta_vecs)
    THEN [self |-> [self EXCEPT !.theta_vecs = UniformRows(self.num_classes, self.degree)],
          warn |-> {"ParameterFormatWarning"}]
    ELSE [self |-> self, warn |-> {}]

MixGenSetHParamsOp(self, h_alpha_vec, h_beta_vec) ==
    IF ~pos_float_vec(h_alpha_vec) THEN Raise(self, "ParameterFormatError")
    ELSE LET s1 == [self EXCEPT !.h_alpha_vec = h_alpha_vec]
         IN  IF ~pos_float_vec(h_beta_vec) THEN Raise(s1, "ParameterFormatError")
             ELSE LET s2 == [s1 EXCEPT !.h_beta_vec = h_beta_vec,
                                       !.num_classes = Len(h_alpha_vec),
                                       !.degree = Len(h_beta_vec)]
                      pi == IF s2.num_classes # Len(s2.pi_vec)
                            THEN [self |-> [s2 EXCEPT !.pi_vec = Uniform(s2.degree)],
                                  warn |-> {"ParameterFormatWarning"}]
                            ELSE [self |-> s2, warn |-> {}]
                      th == MixGenFixTheta(pi.self)
                  IN  [self |-> th.self, ret |-> RetNone, exc |-> "none",
                       warn |-> pi.warn \cup th.warn]

MixGenSetParamsOp(self, pi_vec, theta_vecs) ==
    IF ~float_vec_sum_1(pi_vec) THEN Raise(self, "ParameterFormatError")
    ELSE LET s1 == [self EXCEPT !.pi_vec = pi_vec]
         IN  IF ~float_vecs_sum_1(theta_vecs) THEN Raise(s1, "ParameterFormatError")
             ELSE LET s2 == [s1 EXCEPT !.theta_vecs = theta_vecs,
                                       !.num_classes = Len(pi_vec),
                                       !.degree = Cols(theta_vecs)]
                      al == IF s2.num_classes # Len(s2.h_alpha_vec)
                            THEN [self |-> [s2 EXCEPT !.h_alpha_vec = Halves(s2.degree)],
                                  warn |-> {"ParameterFormatWarning"}]
                            ELSE [self |-> s2, warn |-> {}]
                      be == IF al.self.degree # Len(al.self.h_beta_vec)
                            THEN [self |-> [al.self EXCEPT !.h_beta_vec = Halves(al.self.degree)],
                                  warn |-> {"ParameterFormatWarning"}]
                            ELSE [self |-> al.self, warn |-> {}]
                  IN  [self |-> be.self, ret |-> RetNone, exc |-> "none",
                       warn |-> al.warn \cup be.warn]

\* rng.dirichlet(alpha): some point of the simplex of alpha's dimension
Dirichlet(alpha) == {Uniform(Len(alpha)), Skewed(Len(alpha))}

\* numpy's a[:] = b for one-dimensional a and b: b's length is a's, or 1
Broadcasts(b, a) == Len(b) = Len(a) \/ Len(b) = 1
Broadcast(b, a) == IF Len(b) = Len(a) THEN b ELSE Const(Len(a), b[1])
\* arr[:] = b for a vector b and arr of one or two axes: b goes into every row
BroadcastInto(b, arr) ==
    IF arr.ndim = 2 THEN Array2([k \in 1..Len(arr.a) |-> Broadcast(b, arr.a[k])])
    ELSE Array1(Broadcast(b, arr.a))

\* lines 217-218: the rows k..num_classes of theta_vecs, each a fresh draw
RECURSIVE MixGenDrawRows(_, _, _)
MixGenDrawRows(self, k, draws) ==
    IF k > self.num_classes THEN Ok(self, RetNone)
    ELSE IF k > Rows(self.theta_vecs) THEN Raise(self, "IndexError")
    ELSE IF ~Broadcasts(draws[k], self.theta_vecs[k]) THEN Raise(self, "ValueError")
    ELSE MixGenDrawRows(
             [self EXCEPT !.theta_vecs[k] = Broadcast(draws[k], self.theta_vecs[k])],
             k + 1, draws)

\* gen_params, with the draws the generator makes: pi, and one per class in rows
MixGenGenParamsOp(self, pi, rows) ==
    IF ~Broadcasts(pi, self.pi_vec) THEN Raise(self, "ValueError")
    ELSE MixGenDrawRows([self EXCEPT !.pi_vec = Broadcast(pi, self.pi_vec)], 1, rows)

\* p <= q for fractions
FracLeq(p, q) == p[1] * q[2] <= q[1] * p[2]

\* rng.choice(n, p=p) raises ValueError unless p has n entries that sum to 1
ChoiceOk(n, p) == Len(p) = n /\ FracSum(p) = <<1, 1>>
\* and draws a class (numbered from 1 here) of positive probability
Choice(n, p) == {k \in 1..n : p[k][1] > 0}

\* rng.multinomial(n, pvals) raises ValueError when pvals[:-1] sums to more than 1
MultinomialOk(pvals) == FracLeq(FracSum(SubSeq(pvals, 1, Len(pvals) - 1)), <<1, 1>>)
\* and draws counts that sum to n, none in a category of probability 0; the last
\* category's probability is what pvals[:-1] leaves
Multinomial(n, pvals) ==
    LET L == Len(pvals)
        Never(j) == IF j < L THEN pvals[j][1] = 0
                    ELSE FracSum(SubSeq(pvals, 1, L - 1)) = <<1, 1>>
    IN  {c \in [1..L -> 0..n] : SeqSum(c) = n /\ \A j \in 1..L : Never(j) => c[j] = 0}

\* the (x, z) gen_sample returns
RetSample(x, z) == [kind |-> "sample", x |-> x, z |-> z]

\* what the generator can draw for one row of the sample: the class and the counts;
\* one placeholder where the call raises before the draw is used
MixGenRowDraws(self, num_trials) ==
    IF ~pos_int(num_trials) \/ ~ChoiceOk(self.num_classes, self.pi_vec)
    THEN {<<1, <<0>>>>}
    ELSE UNION {IF k <= Rows(self.theta_vecs) /\ MultinomialOk(self.theta_vecs[k])
                THEN {<<k, c>> : c \in Multinomial(num_trials, self.theta_vecs[k])}
                ELSE {<<k, <<0>>>>} : k \in Choice(self.num_classes, self.pi_vec)}

\* lines 240-243: the rows i.. of the sample, row i from the draw draws[i]
RECURSIVE MixGenSampleRows(_, _, _, _, _)
MixGenSampleRows(self, draws, i, x, z) ==
    IF i > Len(z) THEN Ok(self, RetSample(x, z))
    ELSE IF ~ChoiceOk(self.num_classes, self.pi_vec) THEN Raise(self, "ValueError")
    ELSE LET draw == draws[i]
             k == draw[1]
         IN  IF k > Rows(self.theta_vecs) THEN Raise(self, "IndexError")
             ELSE IF ~MultinomialOk(self.theta_vecs[k]) THEN Raise(self, "ValueError")
             ELSE IF ~Broadcasts(draw[2], x[i]) THEN Raise(self, "ValueError")
             ELSE MixGenSampleRows(self, draws, i + 1,
                                   [x EXCEPT ![i] = Broadcast(draw[2], x[i])],
                                   [z EXCEPT ![i][k] = 1])

\* gen_sample, with the draws the generator makes, one per row
MixGenGenSampleOp(self, sample_size, num_trials, draws) ==
    IF ~pos_int(sample_size) THEN Raise(self, "DataFormatError")
    ELSE IF ~pos_int(num_trials) THEN Raise(self, "ValueError")
    ELSE MixGenSampleRows(self, draws, 1,
                          np_empty2(sample_size, self.degree),
                          [i \in 1..sample_size |-> Const(self.num_classes, 0)])

---------------------------------------------------------------------------
(* The mixture GenModel as a state machine *)

MixGenArgs ==
    [num_classes : Opt(Counts), degree : Opt(Counts),
     pi_vec : {None} \cup PiVecs, theta_vecs : {None} \cup ThetaVecs,
     h_alpha_vec : {None} \cup PosVecs, h_beta_vec : {None} \cup PosVecs]

\* a call on mgen with outcome r
MixGenCall(op, args, r) ==
    /\ CallOn("mgen", op, args, mgen, r)
    /\ mgen' = r.self
    /\ UNCHANGED <<twins, bitgen, learn, gen, mlearn>>

MixGenConstruct ==
    /\ last = Idle
    /\ mgen = Absent
    /\ \E a \in MixGenArgs : MixGenCall("__init__", a, MixGenModelInit(a))

MixGenSetHParams ==
    /\ last = Idle
    /\ mgen # Absent
    /\ \E a \in PosVecs, b \in PosVecs :
        MixGenCall("set_h_params", [h_alpha_vec |-> a, h_beta_vec |-> b],
                   MixGenSetHParamsOp(mgen, a, b))

MixGenSetParams ==
    /\ last = Idle
    /\ mgen # Absent
    /\ \E p \in PiVecs, t \in ThetaVecs :
        MixGenCall("set_params", [pi_vec |-> p, theta_vecs |-> t],
                   MixGenSetParamsOp(mgen, p, t))

MixGenGenParams ==
    /\ last = Idle
    /\ mgen # Absent
    /\ \E pi \in Dirichlet(mgen.h_alpha_vec),
          rows \in [1..mgen.num_classes -> Dirichlet(mgen.h_beta_vec)] :
        MixGenCall("gen_params", [pi |-> pi, rows |-> rows],
                   MixGenGenParamsOp(mgen, pi, rows))

InitMixGen ==
    /\ NoTwins
    /\ learn = Absent
    /\ gen = Absent
    /\ mgen = Absent
    /\ mlearn = Absent
    /\ last = Idle

NextMixGen ==
    \/ MixGenConstruct
    \/ MixGenSetHParams
    \/ MixGenSetParams
    \/ MixGenGenParams
    \/ Return

SpecMixGen == InitMixGen /\ [][NextMixGen]_vars

\* the sample sizes and trial counts passed to gen_sample; 0 is the invalid one
SampleSizes == {0, 1, 2}
TrialCounts == {0, 1, 2}

MixGenGenSample ==
    /\ last = Idle
    /\ mgen # Absent
    /\ \E n \in SampleSizes, t \in TrialCounts :
        \E draws \in [1..n -> MixGenRowDraws(mgen, t)] :
            MixGenCall("gen_sample", [sample_size |-> n, num_trials |-> t, draws |-> draws],
                       MixGenGenSampleOp(mgen, n, t, draws))

\* the mixture GenModel with its sampling
NextMixSample ==
    \/ MixGenConstruct
    \/ MixGenSetHParams
    \/ MixGenSetParams
    \/ MixGenGenParams
    \/ MixGenGenSample
    \/ Return

SpecMixSample == InitMixGen /\ [][NextMixSample]_vars

---------------------------------------------------------------------------
(* multinomialmixture.LearnModel *)

\* Gamma(n / 2) for n >= 1, exactly: q * sqrt(pi)^rt with q a fraction
RECURSIVE GammaHalf(_)
GammaHalf(n) ==
    IF n = 1 THEN [q |-> <<1, 1>>, rt |-> 1]
    ELSE IF n = 2 THEN [q |-> <<1, 1>>, rt |-> 0]
    ELSE LET g == GammaHalf(n - 2)
         IN  [q |-> Frac(g.q[1] * (n - 2), g.q[2] * 2), rt |-> g.rt]

\* twice the float p, for p a multiple of 1/2
Doubled(p) == (2 * p[1]) \div p[2]

RECURSIVE GammaProd(_)
GammaProd(v) ==
    IF v = <<>> THEN [q |-> <<1, 1>>, rt |-> 0]
    ELSE LET g == GammaHalf(Doubled(Head(v)))
             r == GammaProd(Tail(v))
         IN  [q |-> Frac(g.q[1] * r.q[1], g.q[2] * r.q[2]), rt |-> g.rt + r.rt]

\* gammaln(v.sum()) - gammaln(v).sum(), held as its exponential
\* Gamma(sum v) / prod Gamma(v[i]) = q * sqrt(pi)^rt: the logarithm is one-to-one
LnC(v) ==
    LET s == GammaHalf(Doubled(FracSum(v)))
        p == GammaProd(v)
    IN  [q |-> Frac(s.q[1] * p.q[2], s.q[2] * p.q[1]), rt |-> s.rt - p.rt]

\* a / b for fractions, b > 0
FracDiv(a, b) == Frac(a[1] * b[2], a[2] * b[1])

\* calc_pred_dist: each parameter vector normalised to sum to 1
MixLearnCalcPredDist(self) ==
    [self EXCEPT
        !.p_pi_vec = [k \in 1..Len(self.hn_alpha_vec) |->
                         FracDiv(self.hn_alpha_vec[k], FracSum(self.hn_alpha_vec))],
        !.p_theta_vecs = [k \in 1..self.num_classes |->
                             [j \in 1..Len(RowOf(self.hn_beta_vec, k)) |->
                                 FracDiv(RowOf(self.hn_beta_vec, k)[j],
                                         FracSum(RowOf(self.hn_beta_vec, k)))]]]

\* reset_hn_params stopping after hn_alpha_vec: hn_beta_vec keeps what it held
MixLearnResetHnParamsOp_AlphaOnly(self) ==
    IF ~Broadcasts(self.h0_alpha_vec, self.hn_alpha_vec) THEN Raise(self, "ValueError")
    ELSE Ok([self EXCEPT !.hn_alpha_vec = Broadcast(self.h0_alpha_vec, @)], RetNone)

MixLearnResetHnParamsOp(self) ==
    IF ~Broadcasts(self.h0_alpha_vec, self.hn_alpha_vec) THEN Raise(self, "ValueError")
    ELSE LET s1 == [self EXCEPT
                       !.hn_alpha_vec = Broadcast(self.h0_alpha_vec, self.hn_alpha_vec)]
         IN  IF ~Broadcasts(s1.h0_beta_vec, RowOf(s1.hn_beta_vec, 1))
             THEN Raise(s1, "ValueError")
             ELSE Ok(MixLearnCalcPredDist(
                         [s1 EXCEPT !.hn_beta_vec = BroadcastInto(s1.h0_beta_vec, @)]),
                     RetNone)

MixLearnSetH0ParamsOp(self, h0_alpha_vec, h0_beta_vec) ==
    IF ~pos_float_vec(h0_alpha_vec) THEN Raise(self, "ParameterFormatError")
    ELSE LET s1 == [self EXCEPT !.h0_alpha_vec = h0_alpha_vec]
         IN  IF ~pos_float_vec(h0_beta_vec) THEN Raise(s1, "ParameterFormatError")
             ELSE MixLearnResetHnParamsOp(
                      [s1 EXCEPT !.h0_beta_vec = h0_beta_vec,
                                 !.num_classes = Len(h0_alpha_vec),
                                 !.degree = Len(h0_beta_vec),
                                 !.hn_alpha_vec = np_empty(Len(h0_alpha_vec)),
                                 !.hn_beta_vec = Array1(np_empty(Len(h0_beta_vec))),
                                 !.p_pi_vec = np_empty(Len(h0_alpha_vec)),
                                 !.p_theta_vecs = np_empty2(Len(h0_alpha_vec), Len(h0_beta_vec)),
                                 !.LN_C_H0_ALPHA = LnC(h0_alpha_vec),
                                 !.LN_C_H0_BETA = LnC(h0_alpha_vec)])

\* __init__, lines 374-388: num_classes and h0_alpha_vec
MixLearnClassPart(a) ==
    IF a.num_classes # None
    THEN IF \/ ~pos_int(a.num_classes[1])
            \/ a.h0_alpha_vec # None /\ ~pos_float_vec(a.h0_alpha_vec)
         THEN [exc |-> "ParameterFormatError"]
         ELSE [exc |-> "none",
               num_classes |-> a.num_classes[1],
               h0_alpha_vec |-> IF a.h0_alpha_vec = None THEN Halves(a.num_classes[1])
                                ELSE a.h0_alpha_vec]
    ELSE IF a.h0_alpha_vec # None
    THEN IF ~pos_float_vec(a.h0_alpha_vec)
         THEN [exc |-> "ParameterFormatError"]
         ELSE [exc |-> "none", num_classes |-> Len(a.h0_alpha_vec),
               h0_alpha_vec |-> a.h0_alpha_vec]
    ELSE [exc |-> "none", num_classes |-> 2, h0_alpha_vec |-> Halves(2)]

\* __init__, lines 394-408: degree and h0_beta_vec
MixLearnDegreePart(a) ==
    IF a.degree # None
    THEN IF \/ ~pos_int(a.degree[1])
            \/ a.h0_beta_vec # None /\ ~pos_float_vec(a.h0_beta_vec)
         THEN [exc |-> "ParameterFormatError"]
         ELSE [exc |-> "none",
               degree |-> a.degree[1],
               h0_beta_vec |-> IF a.h0_beta_vec = None THEN Halves(a.degree[1])
                               ELSE a.h0_beta_vec]
    ELSE IF a.h0_beta_vec # None
    THEN IF ~pos_float_vec(a.h0_beta_vec)
         THEN [exc |-> "ParameterFormatError"]
         ELSE [exc |-> "none", degree |-> Len(a.h0_beta_vec), h0_beta_vec |-> a.h0_beta_vec]
    ELSE [exc |-> "none", degree |-> 3, h0_beta_vec |-> Halves(3)]

\* LearnModel.__init__: the fields, then set_h0_params on the arguments as given;
\* a constructor that raises leaves no object
MixLearnModelInit(a) ==
    LET c == MixLearnClassPart(a)
    IN  IF c.exc # "none" THEN Raise(Absent, c.exc)
        ELSE IF c.num_classes # Len(c.h0_alpha_vec) THEN Raise(Absent, "ParameterFormatError")
        ELSE LET d == MixLearnDegreePart(a)
             IN  IF d.exc # "none" THEN Raise(Absent, d.exc)
                 ELSE IF d.degree # Len(d.h0_beta_vec)
                 THEN Raise(Absent, "ParameterFormatError")
                 ELSE LET r == MixLearnSetH0ParamsOp(
                                   [num_classes |-> c.num_classes, degree |-> d.degree,
                                    h0_alpha_vec |-> c.h0_alpha_vec,
                                    h0_beta_vec |-> d.h0_beta_vec,
                                    LN_C_H0_ALPHA |-> None, LN_C_H0_BETA |-> None,
                                    hn_alpha_vec |-> np_empty(c.num_classes),
                                    hn_beta_vec |-> Array1(np_empty(d.degree)),
                                    r_vecs |-> None,
                                    p_pi_vec |-> np_empty(c.num_classes),
                                    p_theta_vecs |-> np_empty2(c.num_classes, d.degree)],
                                   a.h0_alpha_vec, a.h0_beta_vec)
                      IN  IF r.exc # "none" THEN Raise(Absent, r.exc) ELSE r

---------------------------------------------------------------------------
(* multinomialmixture.LearnModel: the posterior update.  The E-step's digamma *)
(* arithmetic is not computed: the responsibilities of an iteration are any   *)
(* row-stochastic matrix, chosen by the caller of the loop.                   *)

FracScale(p, n) == Frac(p[1] * n, p[2])
FracLess(p, q) == p[1] * q[2] < q[1] * p[2]
\* |p - q|
FracAbsDiff(p, q) ==
    LET a == p[1] * q[2]
        b == q[1] * p[2]
    IN  Frac(IF a >= b THEN a - b ELSE b - a, p[2] * q[2])

\* x is an N x degree matrix of counts >= 0, N >= 1, every row sum > 0
MixLearnCheckSample(self, x) ==
    /\ Len(x) >= 1
    /\ \A i \in 1..Len(x) :
           /\ Len(x[i]) = self.degree
           /\ \A j \in 1..Len(x[i]) : x[i][j] >= 0
           /\ SeqSum(x[i]) > 0

\* M-step: hn_alpha_vec[k] = h0_alpha_vec[k] + sum_i r[i][k],
\*         hn_beta_vecs[k][j] = h0_beta_vec[j] + sum_i r[i][k] * x[i][j]
MixLearnMStep(self, x, r) ==
    LET h0a == Broadcast(self.h0_alpha_vec, Const(self.num_classes, 0))
        h0b == Broadcast(self.h0_beta_vec, Const(self.degree, 0))
    IN  [self EXCEPT
            !.r_vecs = Some(r),
            !.hn_alpha_vec =
                [k \in 1..self.num_classes |->
                    FracAdd(h0a[k], FracSum([i \in 1..Len(x) |-> r[i][k]]))],
            !.hn_beta_vec =
                Array2([k \in 1..self.num_classes |->
                           [j \in 1..self.degree |->
                               FracAdd(h0b[j],
                                       FracSum([i \in 1..Len(x) |->
                                                   FracScale(r[i][k], x[i][j])]))]])]

\* the hyperparameter-delta norm between two posteriors of one shape: the sum
\* of the absolute differences of all entries
MixLearnChange(old, new) ==
    FracAdd(FracSum([k \in 1..new.num_classes |->
                        FracAbsDiff(old.hn_alpha_vec[k], new.hn_alpha_vec[k])]),
            FracSum([k \in 1..new.num_classes |->
                        FracSum([j \in 1..new.degree |->
                                    FracAbsDiff(RowOf(old.hn_beta_vec, k)[j],
                                                RowOf(new.hn_beta_vec, k)[j])])]))

\* what update_posterior returns: the hyperparameters, with the change measured
\* at each iteration run
RetFit(self, changes) ==
    [kind |-> "hyperparameters", hn_alpha_vec |-> self.hn_alpha_vec,
     hn_beta_vec |-> self.hn_beta_vec, changes |-> changes]

\* the loop running one iteration more than max_iter allows
RECURSIVE MixLearnFitLoop_OneMore(_, _, _, _, _, _, _)
MixLearnFitLoop_OneMore(self, x, estep, max_iter, tolerance, t, changes) ==
    LET s1 == MixLearnMStep(self, x, estep[t])
        log == Append(changes, MixLearnChange(self, s1))
    IN  IF FracLess(log[t], tolerance)
        THEN Ok(MixLearnCalcPredDist(s1), RetFit(s1, log))
        ELSE IF t > max_iter
        THEN Warn(MixLearnCalcPredDist(s1), RetFit(s1, log), "ResultWarning")
        ELSE MixLearnFitLoop_OneMore(s1, x, estep, max_iter, tolerance, t + 1, log)

\* iterations t, t + 1, ... of the loop: E-step, M-step, convergence check; then
\* calc_pred_dist.  estep[t] is the responsibility matrix of iteration t.
RECURSIVE MixLearnFitLoop(_, _, _, _, _, _, _)
MixLearnFitLoop(self, x, estep, max_iter, tolerance, t, changes) ==
    LET s1 == MixLearnMStep(self, x, estep[t])
        log == Append(changes, MixLearnChange(self, s1))
    IN  IF FracLess(log[t], tolerance)
        THEN Ok(MixLearnCalcPredDist(s1), RetFit(s1, log))
        ELSE IF t = max_iter
        THEN Warn(MixLearnCalcPredDist(s1), RetFit(s1, log), "ResultWarning")
        ELSE MixLearnFitLoop(s1, x, estep, max_iter, tolerance, t + 1, log)

\* update_posterior(x, max_iter, tolerance)
MixLearnUpdatePosteriorOp(self, x, estep, max_iter, tolerance) ==
    IF ~MixLearnCheckSample(self, x) THEN Raise(self, "DataFormatError")
    ELSE IF \/ ~Broadcasts(self.h0_alpha_vec, Const(self.num_classes, 0))
            \/ ~Broadcasts(self.h0_beta_vec, Const(self.degree, 0))
            \/ Len(self.hn_alpha_vec) # self.num_classes
    THEN Raise(self, "ValueError")
    ELSE MixLearnFitLoop(self, x, estep, max_iter, tolerance, 1, <<>>)

---------------------------------------------------------------------------
(* The mixture LearnModel as a state machine *)

MixLearnArgs ==
    [num_classes : Opt(Counts), degree : Opt(Counts),
     h0_alpha_vec : {None} \cup PosVecs, h0_beta_vec : {None} \cup PosVecs]

\* a call on mlearn with outcome r
MixLearnCall(op, args, r) ==
    /\ CallOn("mlearn", op, args, mlearn, r)
    /\ mlearn' = r.self
    /\ UNCHANGED <<twins, bitgen, learn, gen, mgen>>

MixLearnConstruct ==
    /\ last = Idle
    /\ mlearn = Absent
    /\ \E a \in MixLearnArgs : MixLearnCall("__init__", a, MixLearnModelInit(a))

MixLearnSetH0Params ==
    /\ last = Idle
    /\ mlearn # Absent
    /\ \E a \in {None} \cup PosVecs, b \in {None} \cup PosVecs :
        MixLearnCall("set_h0_params", [h0_alpha_vec |-> a, h0_beta_vec |-> b],
                     MixLearnSetH0ParamsOp(mlearn, a, b))

MixLearnResetHnParams ==
    /\ last = Idle
    /\ mlearn # Absent
    /\ MixLearnCall("reset_hn_params", [none |-> TRUE], MixLearnResetHnParamsOp(mlearn))

InitMixLearn ==
    /\ NoTwins
    /\ learn = Absent
    /\ gen = Absent
    /\ mgen = Absent
    /\ mlearn = Absent
    /\ last = Idle

NextMixLearn ==
    \/ MixLearnConstruct
    \/ MixLearnSetH0Params
    \/ MixLearnResetHnParams
    \/ Return

SpecMixLearn == InitMixLearn /\ [][NextMixLearn]_vars

\* a row of counts of width w: n trials, all in category c
Spike(w, c, n) == [j \in 1..w |-> IF j = c THEN n ELSE 0]
\* the batches passed to update_posterior: one or two rows of one width; the
\* all-zero row is the invalid one, and so is a width other than degree
Samples ==
    UNION {{<<Spike(w, 1, 2)>>, <<Spike(w, 1, 2), Spike(w, w, 1)>>, <<Const(w, 0)>>} :
               w \in Dims}
MaxIters == {1, 2, 3}
Tolerances == {Frac(1, 2)}

\* the responsibility rows an E-step gives: all mass on the first class or on
\* the last, or spread evenly
OneHotRow(K, k) == [c \in 1..K |-> IF c = k THEN Frac(1, 1) ELSE Frac(0, 1)]
RespRows(K) == {OneHotRow(K, 1), OneHotRow(K, K), Uniform(K)}
\* r with the classes in reverse order
Mirror(r) == [i \in 1..Len(r) |-> [k \in 1..Len(r[i]) |-> r[i][Len(r[i]) + 1 - k]]]
\* the E-steps of a call: the same responsibilities at every iteration, or
\* responsibilities that swing between r and its mirror
ESteps(N, K, max_iter) ==
    UNION {{[t \in 1..(max_iter + 1) |-> IF t % 2 = 1 THEN r ELSE q] :
                q \in {r, Mirror(r)}} : r \in [1..N -> RespRows(K)]}

MixLearnUpdatePosterior ==
    /\ last = Idle
    /\ mlearn # Absent
    /\ \E x \in Samples, max_iter \in MaxIters, tolerance \in Tolerances :
          \E estep \in ESteps(Len(x), mlearn.num_classes, max_iter) :
              MixLearnCall("update_posterior",
                           [x |-> x, max_iter |-> max_iter, tolerance |-> tolerance],
                           MixLearnUpdatePosteriorOp(mlearn, x, estep, max_iter, tolerance))

NextMixUpdate ==
    \/ MixLearnConstruct
    \/ MixLearnResetHnParams
    \/ MixLearnUpdatePosterior
    \/ Return

SpecMixUpdate == InitMixLearn /\ [][NextMixUpdate]_vars

\* one LearnModel, exponential or mixture, constructed from valid arguments
InitLearnModels ==
    /\ NoTwins
    /\ last = Idle
    /\ gen = Absent
    /\ mgen = Absent
    /\ \/ /\ \E a \in ParamVals \ {0}, b \in ParamVals \ {0} : learn = LearnModelInit(a, b).self
          /\ mlearn = Absent
       \/ /\ \E a \in PosVecs, b \in PosVecs :
                /\ pos_float_vec(a)
                /\ pos_float_vec(b)
                /\ mlearn = MixLearnModelInit([num_classes |-> None, degree |-> None,
                                               h0_alpha_vec |-> a, h0_beta_vec |-> b]).self
          /\ learn = Absent

NextLearnModels ==
    \/ UpdatePosterior
    \/ SetH0Params
    \/ MixLearnUpdatePosterior
    \/ MixLearnSetH0Params
    \/ Return

SpecLearnModels == InitLearnModels /\ [][NextLearnModels]_vars

---------------------------------------------------------------------------
(* exponential.GenModel: the prior's hyperparameters *)

ExpGenSetParamsOp(self, lambda_) ==
    IF lambda_ # None /\ ~pos_float(PyFloat(lambda_[1]))
    THEN Raise(self, "ParameterFormatError")
    ELSE Ok(IF lambda_ # None THEN [self EXCEPT !.lambda_ = lambda_[1]] ELSE self, RetSelf)

ExpGenSetHParamsOp(self, h_alpha, h_beta) ==
    IF h_alpha # None /\ ~pos_float(PyFloat(h_alpha[1]))
    THEN Raise(self, "ParameterFormatError")
    ELSE LET s1 == IF h_alpha # None THEN [self EXCEPT !.h_alpha = h_alpha[1]] ELSE self
         IN  IF h_beta # None /\ ~pos_float(PyFloat(h_beta[1]))
             THEN Raise(s1, "ParameterFormatError")
             ELSE Ok(IF h_beta # None THEN [s1 EXCEPT !.h_beta = h_beta[1]] ELSE s1, RetSelf)

\* GenModel.__init__(lambda_, h_alpha, h_beta): every field 1.0, then the setters
ExpGenModelInit(lambda_, h_alpha, h_beta) ==
    LET p == ExpGenSetParamsOp([lambda_ |-> 1, h_alpha |-> 1, h_beta |-> 1], Some(lambda_))
    IN  IF p.exc # "none" THEN Raise(Absent, p.exc)
        ELSE LET h == ExpGenSetHParamsOp(p.self, Some(h_alpha), Some(h_beta))
             IN  IF h.exc # "none" THEN Raise(Absent, h.exc) ELSE Ok(h.self, RetNone)

---------------------------------------------------------------------------
(* numpy.random.default_rng: the generator each GenModel holds *)

\* the seeds passed, which are also the entropy the system can supply
Seeds == {0, 1}
\* the bit generators the build may have: each a different stream per seed
BitGens == {0, 1}

\* default_rng that takes fresh entropy whatever the seed
default_rng_Unseeded(seed, entropy) ==
    [seed |-> entropy, pos |-> 0]

\* np.random.default_rng(seed): a generator at the start of the stream of seed, or of
\* fresh entropy when seed is None
default_rng(seed, entropy) ==
    [seed |-> IF seed = None THEN entropy ELSE seed[1], pos |-> 0]

\* the word of its stream generator g is at, under bit generator b
Words == <<3, 1, 4, 1, 5, 0, 2, 5, 3, 5, 0, 2, 4>>
Raw(b, g) == Words[1 + ((5 * g.seed + (b + 1) * g.pos + 7 * b) % Len(Words))]
\* g after n words
Advance(g, n) == [g EXCEPT !.pos = @ + n]

RECURSIVE SetToSeq(_)
SetToSeq(S) == IF S = {} THEN <<>>
               ELSE LET e == CHOOSE e \in S : TRUE IN <<e>> \o SetToSeq(S \ {e})
\* a distribution's draw: the word w decides among the outcomes S
Pick(w, S) == SetToSeq(S)[1 + (w % Cardinality(S))]

\* multinomialmixture.GenModel.gen_params drawing from g: pi_vec, then a row per class
MixGenGenParamsRng(self, b, g) ==
    MixGenGenParamsOp(self, Pick(Raw(b, g), Dirichlet(self.h_alpha_vec)),
                      [k \in 1..self.num_classes |->
                          Pick(Raw(b, Advance(g, k)), Dirichlet(self.h_beta_vec))])

\* multinomialmixture.GenModel.gen_sample drawing from g: per row the class, then the counts
MixGenGenSampleRng(self, sample_size, num_trials, b, g) ==
    LET rows == MixGenRowDraws(self, num_trials)
    IN  MixGenGenSampleOp(self, sample_size, num_trials,
            [i \in 1..sample_size |->
                LET k == Pick(Raw(b, Advance(g, 2 * (i - 1))), {d[1] : d \in rows})
                IN  Pick(Raw(b, Advance(g, 2 * (i - 1) + 1)), {d \in rows : d[1] = k})])

\* what rng.gamma(shape, scale) can draw
GammaDraws == {1, 2}
\* what rng.exponential(scale) can draw, as multiples of the scale
ExponentialDraws == {1, 2, 3}

\* exponential.GenModel.gen_params, with the draw the generator makes
ExpGenGenParamsOp(self, draw) ==
    Ok([self EXCEPT !.lambda_ = draw], RetSelf)

\* exponential.GenModel.gen_sample, with the draws the generator makes
ExpGenGenSampleOp(self, sample_size, draws) ==
    IF ~pos_int(sample_size) THEN Raise(self, "DataFormatError")
    ELSE Ok(self, NdArray([i \in 1..sample_size |-> Frac(draws[i], self.lambda_)]))

ExpGenGenParamsRng(self, b, g) == ExpGenGenParamsOp(self, Pick(Raw(b, g), GammaDraws))
ExpGenGenSampleRng(self, sample_size, b, g) ==
    ExpGenGenSampleOp(self, sample_size,
                      [i \in 1..sample_size |-> Pick(Raw(b, Advance(g, i - 1)), ExponentialDraws)])

---------------------------------------------------------------------------
(* GenModel instances side by side, each with the generator it was seeded   *)
(* with at construction                                                     *)

\* the calls made on one instance
MaxCalls == 2

TwinIds == {1, 2}

\* the arguments the instances are constructed with
TwinMixArgs ==
    {[num_classes |-> nc, degree |-> None, pi_vec |-> None, theta_vecs |-> t,
      h_alpha_vec |-> None, h_beta_vec |-> None] :
        nc \in {None}, t \in {None, [i \in 1..2 |-> Skewed(2)]}}
TwinExpArgs == {[lambda_ |-> 2, h_alpha |-> 1, h_beta |-> 1]}

\* GenModel(**args, seed=seed) of either model
TwinInit(kind, a) ==
    IF kind = "multinomialmixture" THEN MixGenModelInit(a)
    ELSE ExpGenModelInit(a.lambda_, a.h_alpha, a.h_beta)

\* the call c on the instance t: its outcome, and the words it takes from the generator
TwinOutcome(t, c) ==
    IF t.kind = "multinomialmixture"
    THEN IF c.op = "gen_params" THEN MixGenGenParamsRng(t.model, bitgen, t.rng)
         ELSE MixGenGenSampleRng(t.model, c.sample_size, c.num_trials, bitgen, t.rng)
    ELSE IF c.op = "gen_params" THEN ExpGenGenParamsRng(t.model, bitgen, t.rng)
         ELSE ExpGenGenSampleRng(t.model, c.sample_size, bitgen, t.rng)
TwinWords(t, c, r) ==
    IF r.exc # "none" THEN 0
    ELSE IF t.kind = "multinomialmixture"
    THEN IF c.op = "gen_params" THEN 1 + t.model.num_classes ELSE 2 * c.sample_size
    ELSE IF c.op = "gen_params" THEN 1 ELSE c.sample_size

TwinCalls(kind) ==
    {[op |-> "gen_params"]}
        \cup (IF kind = "multinomialmixture"
              THEN {[op |-> "gen_sample", sample_size |-> n, num_trials |-> 1] : n \in {0, 2}}
              ELSE {[op |-> "gen_sample", sample_size |-> n] : n \in {0, 2}})

TwinConstruct ==
    /\ last = Idle
    /\ \E i \in TwinIds :
        /\ twins[i] = Absent
        /\ \E kind \in {"multinomialmixture", "exponential"}, seed \in Opt(Seeds),
              entropy \in Seeds :
            \E a \in IF kind = "multinomialmixture" THEN TwinMixArgs ELSE TwinExpArgs :
                twins' = [twins EXCEPT ![i] =
                             [kind |-> kind, args |-> a, seed |-> seed,
                              model |-> TwinInit(kind, a).self,
                              rng |-> default_rng(seed, entropy),
                              calls |-> <<>>, outs |-> <<>>]]
    /\ UNCHANGED <<learn, gen, mgen, mlearn, bitgen, last>>

\* one call on one instance: gen_params or gen_sample
TwinCall ==
    /\ last = Idle
    /\ \E i \in TwinIds :
        /\ twins[i] # Absent
        /\ Len(twins[i].calls) < MaxCalls
        /\ \E c \in TwinCalls(twins[i].kind) :
            \E r \in {TwinOutcome(twins[i], c)} :
                twins' = [twins EXCEPT ![i] =
                             [@ EXCEPT !.model = r.self,
                                       !.rng = Advance(@, TwinWords(twins[i], c, r)),
                                       !.calls = Append(@, c),
                                       !.outs = Append(@, [ret |-> r.ret, exc |-> r.exc,
                                                           model |-> r.self])]]
    /\ UNCHANGED <<learn, gen, mgen, mlearn, bitgen, last>>

InitTwins ==
    /\ learn = Absent
    /\ gen = Absent
    /\ mgen = Absent
    /\ mlearn = Absent
    /\ twins = [i \in TwinIds |-> Absent]
    /\ bitgen \in BitGens
    /\ last = Idle

NextTwins ==
    \/ TwinConstruct
    \/ TwinCall

SpecTwins == InitTwins /\ [][NextTwins]_vars

---------------------------------------------------------------------------
(* The hyperparameter setters of the three objects that have them, on one   *)
(* object constructed from valid arguments                                  *)

ExpGenSetHParams ==
    /\ last = Idle
    /\ gen # Absent
    /\ \E a \in Opt(ParamVals), b \in Opt(ParamVals) :
        /\ CallOn("gen", "set_h_params", [h_alpha |-> a, h_beta |-> b], gen,
                  ExpGenSetHParamsOp(gen, a, b))
        /\ gen' = ExpGenSetHParamsOp(gen, a, b).self
        /\ UNCHANGED <<twins, bitgen, learn, mgen, mlearn>>

ValidPosVecs == {v \in PosVecs : pos_float_vec(v)}

InitSetters ==
    /\ NoTwins
    /\ last = Idle
    /\ mgen = Absent
    /\ \/ /\ \E a \in ParamVals \ {0}, b \in ParamVals \ {0} : learn = LearnModelInit(a, b).self
          /\ gen = Absent
          /\ mlearn = Absent
       \/ /\ \E l \in ParamVals \ {0}, a \in ParamVals \ {0}, b \in ParamVals \ {0} :
                gen = ExpGenModelInit(l, a, b).self
          /\ learn = Absent
          /\ mlearn = Absent
       \/ /\ \E a \in ValidPosVecs, b \in ValidPosVecs :
                mlearn = MixLearnModelInit([num_classes |-> None, degree |-> None,
                                            h0_alpha_vec |-> a, h0_beta_vec |-> b]).self
          /\ learn = Absent
          /\ gen = Absent

NextSetters ==
    \/ SetH0Params
    \/ SetHnParams
    \/ ExpGenSetHParams
    \/ MixLearnSetH0Params
    \/ Return

SpecSetters == InitSetters /\ [][NextSetters]_vars

---------------------------------------------------------------------------
(* Claims about the exponential LearnModel *)

\* the call that has just ended
Ended(op) == last.op = op /\ last.on = "learn"
Returned(op) == Ended(op) /\ last.exc = "none"

\* the number of observations in x and their sum, as the claims count them
NumObs(x) == IF x.kind = "ndarray" THEN Len(x.elems) ELSE 1
SumObs(x) == IF x.kind = "ndarray" THEN SeqSum(x.elems) ELSE x.v
AllPositive(x) ==
    IF x.kind = "ndarray" THEN \A i \in DOMAIN x.elems : x.elems[i] >= 1 ELSE x.v >= 1

\* C1: update_posterior(x) with a valid batch of N positive observations returns
\* and leaves (hn_alpha + N, hn_beta + sum(x)); from (1, 1) with x = [1, 2, 3] it
\* leaves (4, 7); a scalar observation counts as N = 1.
UpdatePosteriorAddsCountAndSum ==
    Ended("update_posterior") /\ AllPositive(last.args.x) =>
        /\ last.exc = "none"
        /\ learn.hn_alpha = last.pre.hn_alpha + NumObs(last.args.x)
        /\ learn.hn_beta = last.pre.hn_beta + SumObs(last.args.x)
        /\ last.args.x.kind # "ndarray" => learn.hn_alpha = last.pre.hn_alpha + 1
        /\ (/\ last.pre.hn_alpha = 1
            /\ last.pre.hn_beta = 1
            /\ last.args.x = NdArray(<<1, 2, 3>>)) =>
                learn.hn_alpha = 4 /\ learn.hn_beta = 7

\* C1's case: scenario B, the prior (1, 1) updated with [1, 2, 3]
ScenarioBReached ==
    /\ Returned("update_posterior")
    /\ last.args.x = NdArray(<<1, 2, 3>>)
    /\ last.pre.hn_alpha = 1 /\ last.pre.hn_beta = 1
    /\ learn.hn_alpha = 4 /\ learn.hn_beta = 7

\* the object with its predictive parameters recomputed from its posterior
Refreshed(self) == [self EXCEPT !.p_kappa = self.hn_alpha, !.p_lambda = self.hn_beta]

\* C2: pred_and_update(x, loss) returns what make_prediction(loss) gives for the
\* posterior as it was on entry (stale predictive parameters or not), a value
\* in which x does not occur, and then leaves (hn_alpha + 1, hn_beta + x).
PredAndUpdatePredictsFirst ==
    Returned("pred_and_update") =>
        /\ last.ret = make_prediction(Refreshed(last.pre), last.args.loss).ret
        /\ learn.hn_alpha = last.pre.hn_alpha + 1
        /\ learn.hn_beta = last.pre.hn_beta + last.args.x.v

\* C2's case: a prediction made from predictive parameters that were stale on entry
PredictionFromStaleEntry ==
    /\ Returned("pred_and_update")
    /\ last.args.loss = "squared"
    /\ last.pre.p_kappa # last.pre.hn_alpha
    /\ last.pre.p_lambda # last.pre.hn_beta
    /\ last.ret.kind = "float"

Fresh(self) == self.p_kappa = self.hn_alpha /\ self.p_lambda = self.hn_beta

\* C3 as stated: in every state reached by successful calls the predictive
\* parameters equal the posterior hyperparameters.
PredictiveNeverStale ==
    Fresh(learn)

\* C3 amended: the predictive parameters equal the posterior after construction
\* and after every successful set_h0_params, set_hn_params and reset_hn_params;
\* update_posterior leaves them as they were, and pred_and_update leaves them at
\* the posterior as it was before the call.
PredictiveFreshAfterSettersOnly ==
    /\ (\/ Returned("__init__")
        \/ Returned("set_h0_params")
        \/ Returned("set_hn_params")
        \/ Returned("reset_hn_params")) => Fresh(learn)
    /\ Returned("update_posterior") =>
        /\ learn.p_kappa = last.pre.p_kappa
        /\ learn.p_lambda = last.pre.p_lambda
    /\ Returned("pred_and_update") =>
        /\ learn.p_kappa = last.pre.hn_alpha
        /\ learn.p_lambda = last.pre.hn_beta

\* C3's case: an update that has left the predictive parameters behind
StaleAfterUpdate ==
    /\ Returned("update_posterior")
    /\ learn.p_kappa # learn.hn_alpha
    /\ learn.p_lambda # learn.hn_beta

\* the estimate the claim names for each loss
PosteriorMean(self) == RetFloat(Frac(self.hn_alpha, self.hn_beta))
PosteriorMode(self) ==
    IF self.hn_alpha > 1 THEN RetFloat(Frac(self.hn_alpha - 1, self.hn_beta))
    ELSE RetFloat(<<0, 1>>)
PosteriorDist(self) == RetGamma(self.hn_alpha, Frac(1, self.hn_beta))
Estimate(self, loss) ==
    CASE loss = "squared" -> PosteriorMean(self)
      [] loss = "0-1" -> PosteriorMode(self)
      [] loss = "KL" -> PosteriorDist(self)

HasNonPositive(x) == ~AllPositive(x)
Supported(loss) == loss \in {"squared", "0-1", "abs", "KL"}
Hyper(self) == <<self.h0_alpha, self.h0_beta, self.hn_alpha, self.hn_beta>>

\* the calls that read data or a loss name raise as the claim says
RaisesAsStated ==
    /\ Ended("update_posterior") /\ HasNonPositive(last.args.x) =>
            last.exc = "DataFormatError"
    /\ Ended("pred_and_update") /\ HasNonPositive(last.args.x) =>
            last.exc = "DataFormatError"
    /\ (Ended("estimate_params") \/ Ended("make_prediction")) /\ ~Supported(last.args.loss) =>
            last.exc = "CriteriaError"
    /\ (/\ Ended("pred_and_update")
        /\ ~HasNonPositive(last.args.x)
        /\ last.args.x.kind # "ndarray"
        /\ ~Supported(last.args.loss)) => last.exc = "CriteriaError"

Failed == last.op # "idle" /\ last.on = "learn" /\ last.exc \in {"DataFormatError", "CriteriaError"}

\* what the next valid call gives, from object a and from object b
SameNextCall(a, b) ==
    /\ \A loss \in {"squared", "0-1", "abs", "KL"} :
        /\ make_prediction(a, loss) = [make_prediction(b, loss) EXCEPT !.self = a]
        /\ \A d \in BOOLEAN :
               estimate_params(a, loss, d) = [estimate_params(b, loss, d) EXCEPT !.self = a]
    /\ \A x \in {PyFloat(1), NdArray(<<1, 2>>)} :
           Hyper(update_posterior(a, x).self) = Hyper(update_posterior(b, x).self)

\* C5 as stated: a non-positive datum raises DataFormatError, an unsupported
\* loss raises CriteriaError; the failing call leaves hn_alpha and hn_beta as
\* they were, and the next valid call behaves as if it had not happened.
FailingCallLeavesNoTrace ==
    /\ RaisesAsStated
    /\ Failed =>
        /\ learn.hn_alpha = last.pre.hn_alpha
        /\ learn.hn_beta = last.pre.hn_beta
        /\ SameNextCall(learn, last.pre)

\* C5 amended: the same errors are raised and every prior and posterior
\* hyperparameter keeps its value; the predictive parameters keep theirs too,
\* except that pred_and_update failing on its loss name has already recomputed
\* them from the posterior, so the next make_prediction sees them fresh.
FailingCallKeepsHyperparameters ==
    /\ RaisesAsStated
    /\ Failed =>
        /\ Hyper(learn) = Hyper(last.pre)
        /\ IF Ended("pred_and_update") /\ last.exc = "CriteriaError"
           THEN learn = Refreshed(last.pre)
           ELSE learn = last.pre /\ SameNextCall(learn, last.pre)

\* C5's case: pred_and_update rejected for its loss name, from a stale object
RejectedLossFromStale ==
    /\ Ended("pred_and_update")
    /\ last.exc = "CriteriaError"
    /\ ~Fresh(last.pre)
    /\ Fresh(learn)

\* C6: make_prediction("squared") returns p_lambda / (p_kappa - 1) when
\* p_kappa > 1, and None with a ResultWarning (no failure) when p_kappa <= 1;
\* make_prediction("0-1") returns 0; pred_and_update with "squared" on an
\* undefined mean returns None and still folds the observation in.
UndefinedMeanIsNoneWithWarning ==
    /\ Ended("make_prediction") /\ last.args.loss = "squared" =>
        /\ last.exc = "none"
        /\ IF last.pre.p_kappa > 1
           THEN /\ last.ret = RetFloat(Frac(last.pre.p_lambda, last.pre.p_kappa - 1))
                /\ last.warn = {}
           ELSE /\ last.ret = RetNone
                /\ last.warn = {"ResultWarning"}
    /\ Ended("make_prediction") /\ last.args.loss = "0-1" =>
        /\ last.exc = "none"
        /\ last.ret = RetFloat(<<0, 1>>)
    /\ (/\ Ended("pred_and_update")
        /\ last.args.loss = "squared"
        /\ last.args.x.kind # "ndarray"
        /\ AllPositive(last.args.x)
        /\ last.pre.hn_alpha <= 1) =>
            /\ last.exc = "none"
            /\ last.ret = RetNone
            /\ "ResultWarning" \in last.warn
            /\ learn.hn_alpha = last.pre.hn_alpha + 1
            /\ learn.hn_beta = last.pre.hn_beta + last.args.x.v

\* C6's case: a sequential prediction on the default prior
NonePredictedAndFolded ==
    /\ Returned("pred_and_update")
    /\ last.args.loss = "squared"
    /\ last.pre.hn_alpha = 1
    /\ last.ret = RetNone
    /\ learn.hn_alpha = 2

---------------------------------------------------------------------------
(* Claims about the setters and the mixture model *)

\* the object a call was made on, as it is now
Object(on) ==
    CASE on = "learn" -> learn
      [] on = "gen" -> gen
      [] on = "mgen" -> mgen
      [] on = "mlearn" -> mlearn

EndedOn(on, op) == last.op = op /\ last.on = on
ReturnedOn(on, op) == EndedOn(on, op) /\ last.exc = "none"

\* C7: a hyperparameter setter (exponential LearnModel.set_h0_params and
\* set_hn_params, exponential GenModel.set_h_params, mixture
\* LearnModel.set_h0_params) that raises ParameterFormatError leaves every field
\* of the object at its value before the call.
SetterFailureLeavesObjectUnchanged ==
    (/\ last.op \in {"set_h0_params", "set_hn_params", "set_h_params"}
     /\ last.exc = "ParameterFormatError") =>
        Object(last.on) = last.pre

\* C7's case: a setter raises on its second argument after taking the first
FirstArgumentTaken ==
    /\ EndedOn("learn", "set_h0_params")
    /\ last.exc = "ParameterFormatError"
    /\ last.args.h0_alpha # None
    /\ learn.h0_alpha = last.args.h0_alpha[1]
    /\ learn.h0_alpha # last.pre.h0_alpha
    /\ learn.hn_alpha = last.pre.hn_alpha

\* the same on the mixture LearnModel alone
MixLearnSetterFailureLeavesObjectUnchanged ==
    EndedOn("mlearn", "set_h0_params") /\ last.exc = "ParameterFormatError" =>
        mlearn = last.pre

\* the same on the exponential GenModel alone
ExpGenSetterFailureLeavesObjectUnchanged ==
    EndedOn("gen", "set_h_params") /\ last.exc = "ParameterFormatError" =>
        gen = last.pre

MixGenDimsAgree(self) ==
    /\ self.num_classes = Len(self.pi_vec)
    /\ self.num_classes = Len(self.h_alpha_vec)
    /\ self.num_classes = Rows(self.theta_vecs)
    /\ self.degree = Cols(self.theta_vecs)
    /\ self.degree = Len(self.h_beta_vec)

\* C8: after construction and after every set_h_params, set_params and
\* gen_params call that returns, num_classes = length(pi_vec) =
\* length(h_alpha_vec) = rows(theta_vecs) and degree = columns(theta_vecs) =
\* length(h_beta_vec); a setter that changes num_classes reinitializes pi_vec to
\* uniform 1/num_classes, or h_alpha_vec to all 1/2, of length num_classes, with
\* a ParameterFormatWarning.
MixGenDimensionInvariant ==
    /\ (last # Idle /\ last.on = "mgen" /\ last.exc = "none") => MixGenDimsAgree(mgen)
    /\ (/\ ReturnedOn("mgen", "set_h_params")
        /\ Len(last.args.h_alpha_vec) # Len(last.pre.pi_vec)) =>
            /\ mgen.pi_vec = Uniform(mgen.num_classes)
            /\ "ParameterFormatWarning" \in last.warn
    /\ (/\ ReturnedOn("mgen", "set_params")
        /\ Len(last.args.pi_vec) # Len(last.pre.h_alpha_vec)) =>
            /\ mgen.h_alpha_vec = Halves(mgen.num_classes)
            /\ "ParameterFormatWarning" \in last.warn

\* C8's case: set_h_params on a consistent object changes the class count
ClassCountChangedBySetHParams ==
    /\ ReturnedOn("mgen", "set_h_params")
    /\ MixGenDimsAgree(last.pre)
    /\ mgen.num_classes # last.pre.num_classes
    /\ Len(mgen.pi_vec) # mgen.num_classes

\* the class counts and the degrees that the supplied arguments imply
ImpliedClassCounts(a) ==
    (IF a.num_classes # None THEN {a.num_classes[1]} ELSE {})
        \cup (IF a.pi_vec # None THEN {Len(a.pi_vec)} ELSE {})
        \cup (IF a.h_alpha_vec # None THEN {Len(a.h_alpha_vec)} ELSE {})
        \cup (IF a.theta_vecs # None THEN {Rows(a.theta_vecs)} ELSE {})
ImpliedDegrees(a) ==
    (IF a.degree # None THEN {a.degree[1]} ELSE {})
        \cup (IF a.theta_vecs # None THEN {Cols(a.theta_vecs)} ELSE {})
        \cup (IF a.h_beta_vec # None THEN {Len(a.h_beta_vec)} ELSE {})

\* the precedence the claim states
ResolvedClasses(a) ==
    IF a.num_classes # None THEN a.num_classes[1]
    ELSE IF a.pi_vec # None THEN Len(a.pi_vec)
    ELSE IF a.h_alpha_vec # None THEN Len(a.h_alpha_vec)
    ELSE 2
ResolvedDegree(a) ==
    IF a.degree # None THEN a.degree[1]
    ELSE IF a.theta_vecs # None THEN Cols(a.theta_vecs)
    ELSE IF a.h_beta_vec # None THEN Len(a.h_beta_vec)
    ELSE 3

\* C9: the mixture GenModel's constructor resolves num_classes as explicit
\* num_classes > length of pi_vec > length of h_alpha_vec > 2 and degree as
\* explicit degree > columns of theta_vecs > length of h_beta_vec > 3, fills
\* every vector not supplied with its default of the resolved size, and raises
\* ParameterFormatError (producing no object) whenever two supplied values
\* imply different class counts or degrees.
MixGenConstructorPrecedence ==
    EndedOn("mgen", "__init__") =>
        LET a == last.args
            K == ResolvedClasses(a)
            d == ResolvedDegree(a)
        IN  /\ (Cardinality(ImpliedClassCounts(a)) > 1 \/ Cardinality(ImpliedDegrees(a)) > 1) =>
                    last.exc = "ParameterFormatError"
            /\ last.exc # "none" => mgen = Absent
            /\ last.exc = "none" =>
                /\ mgen.num_classes = K
                /\ mgen.degree = d
                /\ mgen.pi_vec = IF a.pi_vec = None THEN Uniform(K) ELSE a.pi_vec
                /\ mgen.theta_vecs = IF a.theta_vecs = None THEN UniformRows(K, d)
                                     ELSE a.theta_vecs
                /\ mgen.h_alpha_vec = IF a.h_alpha_vec = None THEN Halves(K) ELSE a.h_alpha_vec
                /\ mgen.h_beta_vec = IF a.h_beta_vec = None THEN Halves(d) ELSE a.h_beta_vec
                /\ MixGenDimsAgree(mgen)
            /\ a = [num_classes |-> None, degree |-> None, pi_vec |-> None,
                    theta_vecs |-> None, h_alpha_vec |-> None, h_beta_vec |-> None] =>
                    last.exc = "none" /\ mgen.num_classes = 2 /\ mgen.degree = 3

\* C9's case: the class count comes from pi_vec and the degree from h_beta_vec
\* while the other vectors are filled in
ResolvedFromVectors ==
    /\ ReturnedOn("mgen", "__init__")
    /\ last.args.num_classes = None /\ last.args.pi_vec # None
    /\ last.args.h_alpha_vec = None
    /\ last.args.degree = None /\ last.args.theta_vecs = None
    /\ last.args.h_beta_vec # None
    /\ mgen.num_classes = 3 /\ mgen.degree = 2
    /\ mgen.h_alpha_vec = Halves(3)
    /\ mgen.theta_vecs = UniformRows(3, 2)

\* C10: the mixture LearnModel is constructed from defaults: with no vector
\* given (num_classes and degree given or not) the constructor returns an object
\* with num_classes (default 2) and degree (default 3), all-1/2 prior vectors of
\* those lengths, and posterior hyperparameters equal to the prior ones.
MixLearnConstructsFromDefaults ==
    (/\ EndedOn("mlearn", "__init__")
     /\ last.args.h0_alpha_vec = None
     /\ last.args.h0_beta_vec = None
     /\ last.args.num_classes # None => last.args.num_classes[1] >= 1
     /\ last.args.degree # None => last.args.degree[1] >= 1) =>
        LET K == IF last.args.num_classes # None THEN last.args.num_classes[1] ELSE 2
            d == IF last.args.degree # None THEN last.args.degree[1] ELSE 3
        IN  /\ last.exc = "none"
            /\ mlearn # Absent
            /\ mlearn.num_classes = K
            /\ mlearn.degree = d
            /\ mlearn.h0_alpha_vec = Halves(K)
            /\ mlearn.h0_beta_vec = Halves(d)
            /\ mlearn.hn_alpha_vec = mlearn.h0_alpha_vec
            /\ mlearn.hn_beta_vec.a = mlearn.h0_beta_vec

\* C10's case: the constructor called with no argument at all raises
NoArgumentConstructorRaises ==
    /\ EndedOn("mlearn", "__init__")
    /\ last.args = [num_classes |-> None, degree |-> None,
                    h0_alpha_vec |-> None, h0_beta_vec |-> None]
    /\ last.exc = "ParameterFormatError"
    /\ mlearn = Absent

\* the constructor returns only when both prior vectors are given, and then the
\* posterior equals the prior
MixLearnConstructsFromVectorsOnly ==
    ReturnedOn("mlearn", "__init__") =>
        /\ last.args.h0_alpha_vec # None
        /\ last.args.h0_beta_vec # None
        /\ mlearn.h0_alpha_vec = last.args.h0_alpha_vec
        /\ mlearn.hn_alpha_vec = mlearn.h0_alpha_vec
        /\ mlearn.hn_beta_vec.a = mlearn.h0_beta_vec

\* no storage is left undefined in an object a call has returned
NothingUndefined ==
    (mlearn # Absent /\ last # Idle /\ last.exc = "none") =>
        /\ \A k \in DOMAIN mlearn.hn_alpha_vec : mlearn.hn_alpha_vec[k] # Undefined
        /\ \A j \in DOMAIN mlearn.hn_beta_vec.a : mlearn.hn_beta_vec.a[j] # Undefined
        /\ \A k \in DOMAIN mlearn.p_pi_vec : mlearn.p_pi_vec[k] # Undefined
        /\ \A k \in DOMAIN mlearn.p_theta_vecs :
               \A j \in DOMAIN mlearn.p_theta_vecs[k] : mlearn.p_theta_vecs[k][j] # Undefined

---------------------------------------------------------------------------
(* Claims about the generative models' sampling *)

\* c is an initial part of d
IsPrefix(c, d) == Len(c) <= Len(d) /\ SubSeq(d, 1, Len(c)) = c

\* two instances constructed alike: the same model, arguments and seed
SameConstruction(t, u) ==
    /\ t # Absent /\ u # Absent
    /\ t.kind = u.kind
    /\ t.seed # None /\ t.seed = u.seed
    /\ t.args = u.args

CallsAreLocal ==
    [][\A i \in DOMAIN twins : twins'[i] # twins[i] =>
            \A j \in DOMAIN twins \ {i} : twins'[j] = twins[j]]_vars

\* without a seed the two need not agree: the generator starts from fresh entropy
UnseededMayDiffer ==
    /\ twins # <<>>
    /\ twins[1] # Absent /\ twins[2] # Absent
    /\ twins[1].kind = twins[2].kind /\ twins[1].args = twins[2].args
    /\ twins[1].seed = None /\ twins[2].seed = None
    /\ twins[1].calls = twins[2].calls
    /\ twins[1].outs # twins[2].outs

\* a row with exactly one 1 and 0 elsewhere, and the class it marks
OneHot(row) ==
    /\ \A k \in 1..Len(row) : row[k] \in {0, 1}
    /\ Cardinality({k \in 1..Len(row) : row[k] = 1}) = 1
ClassOf(row) == CHOOSE k \in 1..Len(row) : row[k] = 1

\* what the claim says of a sample (x, z) of n rows and t trials from self
IsSampleOf(self, n, t, x, z) ==
    /\ Len(x) = n /\ Len(z) = n
    /\ \A i \in 1..n :
        /\ Len(x[i]) = self.degree
        /\ \A j \in 1..Len(x[i]) : x[i][j] \in Nat
        /\ SeqSum(x[i]) = t
        /\ Len(z[i]) = self.num_classes
        /\ OneHot(z[i])
        /\ x[i] \in Multinomial(t, self.theta_vecs[ClassOf(z[i])])

\* C12: mixture GenModel.gen_sample(sample_size, num_trials) with positive
\* integer arguments returns x of sample_size rows of degree non-negative
\* integers that sum to num_trials and z of sample_size one-hot rows of
\* num_classes entries, row i of x drawn from the class row i of z marks, and
\* changes no parameter; a non-positive sample_size raises DataFormatError and
\* returns nothing.
GenSampleContract ==
    EndedOn("mgen", "gen_sample") =>
        LET n == last.args.sample_size
            t == last.args.num_trials
        IN  /\ mgen = last.pre
            /\ n < 1 => last.exc = "DataFormatError" /\ last.ret = NoReturn
            /\ (n >= 1 /\ t >= 1) =>
                /\ last.exc = "none"
                /\ last.ret.kind = "sample"
                /\ IsSampleOf(mgen, n, t, last.ret.x, last.ret.z)

\* gen_sample keeps the contract on every object whose dimensions agree and whose
\* parameters are probability vectors
GenSampleContractWhenConsistent ==
    (/\ EndedOn("mgen", "gen_sample")
     /\ MixGenDimsAgree(last.pre)
     /\ float_vec_sum_1(last.pre.pi_vec)
     /\ float_vecs_sum_1(last.pre.theta_vecs)) => GenSampleContract

\* C12's case: a sample of two rows of different classes is returned
TwoClassesSampled ==
    /\ ReturnedOn("mgen", "gen_sample")
    /\ last.args.sample_size = 2 /\ last.args.num_trials = 2
    /\ IsSampleOf(mgen, 2, 2, last.ret.x, last.ret.z)
    /\ last.ret.z[1] # last.ret.z[2]
    /\ last.ret.x[1] # last.ret.x[2]

\* and the case in which it fails: positive arguments on an object that
\* set_h_params has left with a pi_vec of the wrong length
GenSampleRaisesAfterSetHParams ==
    /\ EndedOn("mgen", "gen_sample")
    /\ last.args.sample_size >= 1 /\ last.args.num_trials >= 1
    /\ last.exc = "ValueError"
    /\ Len(mgen.pi_vec) # mgen.num_classes

---------------------------------------------------------------------------
(* Claims about the mixture LearnModel's prior and posterior *)

\* a call on mlearn that resets the posterior has returned
MixLearnResetReturned ==
    /\ last.op \in {"__init__", "set_h0_params", "reset_hn_params"}
    /\ last.on = "mlearn"
    /\ last.exc = "none"

\* C15: after the mixture LearnModel's reset_hn_params (so after construction and
\* set_h0_params too) hn_alpha_vec equals h0_alpha_vec, of length num_classes,
\* and the posterior multinomial hyperparameters are a num_classes x degree
\* matrix of which every row equals h0_beta_vec; the prior is left as it was.
ResetGivesPriorInEveryRow ==
    MixLearnResetReturned =>
        /\ mlearn.hn_alpha_vec = mlearn.h0_alpha_vec
        /\ Len(mlearn.hn_alpha_vec) = mlearn.num_classes
        /\ mlearn.hn_beta_vec.ndim = 2
        /\ Len(mlearn.hn_beta_vec.a) = mlearn.num_classes
        /\ \A k \in 1..mlearn.num_classes : mlearn.hn_beta_vec.a[k] = mlearn.h0_beta_vec
        /\ last.op = "reset_hn_params" =>
               /\ mlearn.h0_alpha_vec = last.pre.h0_alpha_vec
               /\ mlearn.h0_beta_vec = last.pre.h0_beta_vec

\* what the source gives instead after construction and set_h0_params: one
\* vector of length degree for all classes
ResetGivesOnePriorVector ==
    (MixLearnResetReturned /\ last.op # "reset_hn_params") =>
        /\ mlearn.hn_alpha_vec = mlearn.h0_alpha_vec
        /\ Len(mlearn.hn_alpha_vec) = mlearn.num_classes
        /\ mlearn.hn_beta_vec = Array1(mlearn.h0_beta_vec)

\* C15's case: an object of two classes and three categories after a reset
ResetOfTwoClassesThreeCategories ==
    /\ ReturnedOn("mlearn", "reset_hn_params")
    /\ mlearn.num_classes = 2
    /\ mlearn.degree = 3
    /\ mlearn.hn_beta_vec.ndim = 1
    /\ Len(mlearn.hn_beta_vec.a) = 3

\* C19: the cached constants LN_C_H0_ALPHA and LN_C_H0_BETA are those of the
\* current prior: after construction and after set_h0_params each is the
\* Dirichlet log-normaliser of its own vector, LN_C_H0_BETA that of h0_beta_vec.
LnCConstantsMatchPrior ==
    (/\ last.op \in {"__init__", "set_h0_params"}
     /\ last.on = "mlearn"
     /\ last.exc = "none") =>
        /\ mlearn.LN_C_H0_ALPHA = LnC(mlearn.h0_alpha_vec)
        /\ mlearn.LN_C_H0_BETA = LnC(mlearn.h0_beta_vec)

\* what the source gives instead: both constants are computed from h0_alpha_vec
LnCConstantsBothFromAlpha ==
    (/\ last.op \in {"__init__", "set_h0_params"}
     /\ last.on = "mlearn"
     /\ last.exc = "none") =>
        /\ mlearn.LN_C_H0_ALPHA = LnC(mlearn.h0_alpha_vec)
        /\ mlearn.LN_C_H0_BETA = LnC(mlearn.h0_alpha_vec)

\* C19's case: prior vectors whose log-normalisers differ
LnCBetaDiffersFromItsVector ==
    /\ ReturnedOn("mlearn", "set_h0_params")
    /\ LnC(mlearn.h0_alpha_vec) # LnC(mlearn.h0_beta_vec)
    /\ mlearn.LN_C_H0_BETA # LnC(mlearn.h0_beta_vec)

---------------------------------------------------------------------------
(* Claims about the exponential LearnModel's update paths *)

\* the posterior and predictive parameters of two objects agree
SameLearnedState(a, b) ==
    /\ a.hn_alpha = b.hn_alpha
    /\ a.hn_beta = b.hn_beta
    /\ a.p_kappa = b.p_kappa
    /\ a.p_lambda = b.p_lambda

\* C18: on every input update_posterior accepts, an array batch or a single
\* scalar, _update_posterior from the same starting state leaves the same
\* hn_alpha, hn_beta, p_kappa and p_lambda as update_posterior did.
PrivateUpdateEquivalent ==
    Returned("update_posterior") =>
        LET r == _update_posterior(last.pre, last.args.x)
        IN  /\ r.exc = "none"
            /\ SameLearnedState(r.self, learn)

\* the equivalence on the inputs that carry a size: arrays and numpy scalars
PrivateUpdateEquivalentOnSized ==
    (Returned("update_posterior") /\ HasSize(last.args.x)) =>
        LET r == _update_posterior(last.pre, last.args.x)
        IN  /\ r.exc = "none"
            /\ r.ret = last.ret
            /\ r.self = learn

\* C18's case: update_posterior has accepted a python float, which
\* _update_posterior cannot take the size of
PrivateUpdateRaisesOnPyFloat ==
    /\ Returned("update_posterior")
    /\ last.args.x.kind = "float"
    /\ learn.hn_alpha = last.pre.hn_alpha + 1
    /\ _update_posterior(last.pre, last.args.x).exc = "AttributeError"

\* the observations of x in order
Elems(x) == IF x.kind = "ndarray" THEN x.elems ELSE <<x.v>>
Posterior(self) == <<self.hn_alpha, self.hn_beta>>
\* the object after update_posterior(x)
Updated(self, x) == update_posterior(self, x).self

\* the object after the observations of seq went one at a time through
\* pred_and_update, each as a scalar of the given kind
RECURSIVE Fed(_, _, _, _)
Fed(self, seq, kind, loss) ==
    IF seq = <<>> THEN self
    ELSE Fed(pred_and_update(self, [kind |-> kind, v |-> Head(seq)], loss).self,
             Tail(seq), kind, loss)

\* the batches A set against the batch just accepted: every scalar and every
\* array of up to two observations
OtherBatches == Scalars \cup {NdArray(q) : q \in SeqsUpTo(Obs, 2)}

---------------------------------------------------------------------------
(* Claims about the mixture LearnModel's posterior update *)

\* update_posterior on mlearn has returned
MixFitReturned == ReturnedOn("mlearn", "update_posterior")
\* the iteration's change is below the tolerance of the call
Converged(change) == FracLess(change, last.args.tolerance)

\* C13: the mixture LearnModel's update loop terminates: on valid data the call
\* returns, having run at least one and at most max_iter iterations; no iteration
\* before the last was below tolerance, and the last either was or is iteration
\* max_iter; the ResultWarning is raised exactly when the last iteration was not
\* below tolerance; the hyperparameters are returned and the predictive
\* parameters are those recomputed from them.
UpdateLoopTerminates ==
    /\ (EndedOn("mlearn", "update_posterior") /\ MixLearnCheckSample(last.pre, last.args.x))
            => last.exc = "none"
    /\ MixFitReturned =>
            LET log == last.ret.changes
                n == Len(log)
            IN  /\ n >= 1
                /\ n <= last.args.max_iter
                /\ \A t \in 1..(n - 1) : ~Converged(log[t])
                /\ Converged(log[n]) \/ n = last.args.max_iter
                /\ last.warn = IF Converged(log[n]) THEN {} ELSE {"ResultWarning"}
                /\ last.ret.hn_alpha_vec = mlearn.hn_alpha_vec
                /\ last.ret.hn_beta_vec = mlearn.hn_beta_vec
                /\ FracSum(mlearn.hn_alpha_vec)
                       = FracAdd(FracSum(mlearn.h0_alpha_vec), Frac(Len(last.args.x), 1))
                /\ mlearn = MixLearnCalcPredDist(mlearn)

\* C13's case: responsibilities that swing run the loop to max_iter = 3, and the
\* call returns with the warning
SwingingRunsToMaxIter ==
    /\ MixFitReturned
    /\ last.args.max_iter = 3
    /\ Len(last.ret.changes) = 3
    /\ last.warn = {"ResultWarning"}

\* the loop stops at the second of three iterations allowed, without a warning
StopsBeforeMaxIter ==
    /\ MixFitReturned
    /\ last.args.max_iter = 3
    /\ Len(last.ret.changes) = 2
    /\ last.warn = {}

\* class k has no responsibility for any row of the batch
NoResponsibility(k) == \A i \in 1..Len(mlearn.r_vecs[1]) : mlearn.r_vecs[1][i][k] = Frac(0, 1)

\* C14: mass only increases.  Every posterior entry of a mixture LearnModel is
\* positive in every state reached through construction, reset and update;
\* after an update hn_alpha_vec[k] >= h0_alpha_vec[k] and the sum of class k's
\* multinomial hyperparameters is >= the sum of h0_beta_vec, for every class k,
\* and a class with zero responsibility for all rows has its prior's values.
MassOnlyIncreases ==
    /\ mlearn # Absent =>
           \A k \in 1..mlearn.num_classes :
               /\ mlearn.hn_alpha_vec[k][1] > 0
               /\ \A j \in 1..mlearn.degree : RowOf(mlearn.hn_beta_vec, k)[j][1] > 0
    /\ MixFitReturned =>
           \A k \in 1..mlearn.num_classes :
               /\ FracLeq(mlearn.h0_alpha_vec[k], mlearn.hn_alpha_vec[k])
               /\ FracLeq(FracSum(mlearn.h0_beta_vec), FracSum(RowOf(mlearn.hn_beta_vec, k)))
               /\ NoResponsibility(k) =>
                      /\ mlearn.hn_alpha_vec[k] = mlearn.h0_alpha_vec[k]
                      /\ RowOf(mlearn.hn_beta_vec, k) = mlearn.h0_beta_vec

\* C14's case: of three classes the second took no row of a batch of two, and
\* the first gained mass
ClassWithoutResponsibility ==
    /\ MixFitReturned
    /\ mlearn.num_classes = 3
    /\ Len(last.args.x) = 2
    /\ NoResponsibility(2)
    /\ mlearn.hn_alpha_vec[2] = mlearn.h0_alpha_vec[2]
    /\ FracLess(mlearn.h0_alpha_vec[1], mlearn.hn_alpha_vec[1])

---------------------------------------------------------------------------
(* Claims about re-parameterization *)

\* C16: re-parameterization resets dependent state.  After a successful
\* set_h0_params, whatever updates came before: the exponential LearnModel's
\* posterior equals the h0 values (those given, or those it had where none was
\* given, so also with no argument at all) and p_kappa, p_lambda are recomputed
\* from it; the mixture LearnModel's prior vectors are those given, num_classes
\* and degree are their lengths, the posterior equals the prior for every
\* class, and the predictive parameters are recomputed from it.
SetH0ParamsResetsPosterior ==
    /\ Returned("set_h0_params") =>
           /\ learn.h0_alpha = IF last.args.h0_alpha = None THEN last.pre.h0_alpha
                               ELSE last.args.h0_alpha[1]
           /\ learn.h0_beta = IF last.args.h0_beta = None THEN last.pre.h0_beta
                              ELSE last.args.h0_beta[1]
           /\ learn.hn_alpha = learn.h0_alpha
           /\ learn.hn_beta = learn.h0_beta
           /\ learn.p_kappa = learn.hn_alpha
           /\ learn.p_lambda = learn.hn_beta
    /\ ReturnedOn("mlearn", "set_h0_params") =>
           /\ mlearn.h0_alpha_vec = last.args.h0_alpha_vec
           /\ mlearn.h0_beta_vec = last.args.h0_beta_vec
           /\ mlearn.num_classes = Len(mlearn.h0_alpha_vec)
           /\ mlearn.degree = Len(mlearn.h0_beta_vec)
           /\ mlearn.hn_alpha_vec = mlearn.h0_alpha_vec
           /\ \A k \in 1..mlearn.num_classes :
                  RowOf(mlearn.hn_beta_vec, k) = mlearn.h0_beta_vec
           /\ mlearn.p_pi_vec = Uniform(mlearn.num_classes)
                  \/ mlearn.h0_alpha_vec # Const(mlearn.num_classes, Frac(1, 1))
           /\ mlearn = MixLearnCalcPredDist(mlearn)

\* C16's case: set_h0_params with no argument discards what an update learned
NoArgumentSetH0ParamsDiscards ==
    /\ Returned("set_h0_params")
    /\ last.args = [h0_alpha |-> None, h0_beta |-> None]
    /\ last.pre.hn_alpha > last.pre.h0_alpha
    /\ last.pre.hn_beta > last.pre.h0_beta
    /\ Posterior(learn) = <<last.pre.h0_alpha, last.pre.h0_beta>>

\* the mixture's set_h0_params after an update, to vectors of other lengths
MixSetH0ParamsAfterUpdate ==
    /\ ReturnedOn("mlearn", "set_h0_params")
    /\ last.pre.r_vecs # None
    /\ last.pre.hn_alpha_vec # last.pre.h0_alpha_vec
    /\ mlearn.num_classes # last.pre.num_classes
    /\ mlearn.degree # last.pre.degree

=============================================================================
